---- MODULE Spec2Model ----
(***************************************************************************)
(* Booking ledger, admission policy and voucher ledger of the Ovingsrommet *)
(* booking application (App, handleCreate, handleDelete and the pure       *)
(* helpers they call), in local-fallback mode and in Supabase mode.        *)
(*                                                                         *)
(* Dates are day numbers counted from 2025-09-01 (a Monday) = 1, so that   *)
(* the order of the ISO date strings the code compares is the order of the *)
(* integers.                                                               *)
(*                                                                         *)
(* In Supabase mode a handler invocation is a process that is suspended at *)
(* its awaits.  One step of a process is: the collaborator handles the     *)
(* awaited request, and the handler runs on to its next await (or to its   *)
(* end).  The React state a handler reads directly is the state of the     *)
(* render it was created in, kept in cl; functional updates (prev => ...)  *)
(* read the current state.                                                 *)
(***************************************************************************)
EXTENDS Integers, Sequences, FiniteSets, TLC

\* ----- bounds of the model -----
MaxSlots == 2          \* largest slot count of a voucher in the initial ledger
MaxEvents == 3         \* user events (clicks, inputs, sign-in changes) in one behaviour
MaxClock == 4          \* ticks of the clock the edge function reads
MaxBalance == 8        \* adjustVoucherSlots on its own: no positive delta above this slot count

ProcSeq == <<"c1", "c2">>   \* handler invocations that can be in flight together
Procs == {ProcSeq[i] : i \in 1..Len(ProcSeq)}
InitialDates == {29}         \* the selected date at start: 2025-09-29 (a Monday)
BookingDates == <<29, 31>>   \* the date booked in each room: 2025-09-29, 2025-10-01
Users == {"u1", "u2"}
Null == "null"

\* ----- Config -----
OPEN_HOUR == 10
CLOSE_HOUR == 23
HOURS_PER_DAY == CLOSE_HOUR - OPEN_HOUR

\* a room's name is the pair of its type label and its number: `${typeLabel(type)} ${idx}`
DEFAULT_ROOMS ==
  << [id |-> "s1", name |-> <<"Solo", 1>>, type |-> "solo"],
     [id |-> "b1", name |-> <<"Band", 1>>, type |-> "band"] >>

RATECARD == [solo |-> 199, band |-> 399, preprod |-> 799]

\* group multipliers in hundredths (0.7 -> 70)
DEFAULT_PRICING ==
  [base |-> RATECARD,
   groups |-> [standard |-> 100, kulturskole |-> 70, kulturenheten |-> 75]]

\* energy coefficients in tenths of kWh per hour, the optimization factor in hundredths
DEFAULT_ENERGY == [solo |-> 30, band |-> 45, preprod |-> 70, optimizationFactor |-> 88]

Groups == {"standard", "kulturskole"}
LabelInputs == {"", " ", "Ola"}

\* the argument b of handleCreate / handleDelete, as BookingView builds it
BookingArgs ==
  {[date |-> BookingDates[i], roomId |-> DEFAULT_ROOMS[i].id, hour |-> OPEN_HOUR,
    type |-> DEFAULT_ROOMS[i].type, roomName |-> DEFAULT_ROOMS[i].name] : i \in 1..Len(DEFAULT_ROOMS)}

SlotOf(b) == <<b.date, b.roomId, b.hour>>

Max(a, b) == IF a >= b THEN a ELSE b

\* ----- Dates -----
\* September 2025 is days 1..30, October 2025 is days 31..61
startOfWeekISO(s) == s - ((s - 1) % 7)
endOfWeekISO(s) == startOfWeekISO(s) + 6
startOfMonthISO(s) == IF s <= 30 THEN 1 ELSE 31
endOfMonthISO(s) == IF s <= 30 THEN 30 ELSE 61

\* String.prototype.trim on the labels of LabelInputs
Trim(s) == IF s = " " THEN "" ELSE s

\* ----- Voucher utils (pure) -----
\* Array.prototype.find: the first element with the id, 0 when there is none
FindById(vouchers, id) ==
  IF \E i \in 1..Len(vouchers) : vouchers[i].id = id
  THEN CHOOSE i \in 1..Len(vouchers) :
         /\ vouchers[i].id = id
         /\ \A j \in 1..(i-1) : vouchers[j].id # id
  ELSE 0

checkVoucherAvailable(vouchers, id) ==
  LET i == FindById(vouchers, id) IN i # 0 /\ vouchers[i].slots > 0

\* the sum without Math.max(0, ...)
AdjustNoClamp(vouchers, id, delta) ==
  [i \in 1..Len(vouchers) |->
     IF vouchers[i].id = id
     THEN [vouchers[i] EXCEPT !.slots = @ + delta]
     ELSE vouchers[i]]

adjustVoucherSlots(vouchers, id, delta) ==
  [i \in 1..Len(vouchers) |->
     IF vouchers[i].id = id
     THEN [vouchers[i] EXCEPT !.slots = Max(0, @ + delta)]
     ELSE vouchers[i]]

\* index of the first voucher of the partner, 0 when there is none
findVoucherByPartner(vouchers, partner) ==
  IF \E i \in 1..Len(vouchers) : vouchers[i].partner = partner
  THEN CHOOSE i \in 1..Len(vouchers) :
         /\ vouchers[i].partner = partner
         /\ \A j \in 1..(i-1) : vouchers[j].partner # partner
  ELSE 0

\* vouchers.find(v=>v.id===activeVoucherId)?.partner || null
PartnerOfId(vouchers, id) ==
  LET i == FindById(vouchers, id) IN IF i = 0 THEN Null ELSE vouchers[i].partner

\* ----- Booking mode helper (pure) -----
ModePriorityVoucherFirst(voucherRequired, bookForOthers) ==
  IF voucherRequired THEN "voucher"
  ELSE IF bookForOthers THEN "external"
  ELSE "open"

determineBookingMode(voucherRequired, bookForOthers) ==
  IF bookForOthers THEN "external"
  ELSE IF voucherRequired THEN "voucher"
  ELSE "open"

\* ----- Pricing helpers -----
\* Math.floor in place of Math.round
ComputePriceFloor(roomType, pricing, groupCode) ==
  LET base == IF roomType \in DOMAIN pricing.base THEN pricing.base[roomType]
              ELSE IF roomType \in DOMAIN RATECARD THEN RATECARD[roomType]
              ELSE 0
      g == IF groupCode = "" THEN "standard" ELSE groupCode
      mult == IF g \in DOMAIN pricing.groups THEN pricing.groups[g] ELSE 100
  IN (base * mult) \div 100

\* Math.round(base * mult) with mult in hundredths
computePrice(roomType, pricing, groupCode) ==
  LET base == IF roomType \in DOMAIN pricing.base THEN pricing.base[roomType]
              ELSE IF roomType \in DOMAIN RATECARD THEN RATECARD[roomType]
              ELSE 0
      g == IF groupCode = "" THEN "standard" ELSE groupCode
      mult == IF g \in DOMAIN pricing.groups THEN pricing.groups[g] ELSE 100
  IN (base * mult + 50) \div 100

\* ----- Local store helpers -----
\* the store is the nested object bookings[date][roomId][hour]: a function
\* whose domain is the set of occupied slots
AddBookingOverwrite(bookings, b) ==
  [s \in DOMAIN bookings \cup {SlotOf(b)} |-> IF s = SlotOf(b) THEN b ELSE bookings[s]]

addBooking(bookings, b) ==
  IF SlotOf(b) \in DOMAIN bookings
  THEN bookings
  ELSE [s \in DOMAIN bookings \cup {SlotOf(b)} |-> IF s = SlotOf(b) THEN b ELSE bookings[s]]

\* delete out[b.date][b.roomId] in place of delete out[b.date][b.roomId][b.hour]
RemoveWholeRoom(bookings, b) ==
  IF SlotOf(b) \notin DOMAIN bookings
  THEN bookings
  ELSE [s \in {x \in DOMAIN bookings : ~(x[1] = b.date /\ x[2] = b.roomId)} |-> bookings[s]]

removeBooking(bookings, b) ==
  IF SlotOf(b) \notin DOMAIN bookings
  THEN bookings
  ELSE [s \in DOMAIN bookings \ {SlotOf(b)} |-> bookings[s]]

EmptyStore == [s \in {} |-> Null]

\* the range map keeps the dates inside [startISO, endISO]; only its keys are used
filterRangeLocal(store, startISO, endISO) ==
  {s \in DOMAIN store : s[1] >= startISO /\ s[1] <= endISO}

\* ----- Range utilization -----
\* the dates from startISO to endISO, both included; none when startISO is after endISO
RECURSIVE eachDateISO(_, _)
eachDateISO(startISO, endISO) ==
  IF startISO > endISO THEN << >> ELSE <<startISO>> \o eachDateISO(startISO + 1, endISO)

\* a range map is held as the set of its (date, room id, hour) entries; the
\* utilization (booked/total)*100 is held as the fraction num/den
\* days counted without the end date
UtilizationExclusiveEnd(rangeMap, rooms, startISO, endISO) ==
  LET days == Len(eachDateISO(startISO, endISO - 1))
      total == Len(rooms) * HOURS_PER_DAY * days
      booked == Cardinality(rangeMap)
  IN [utilization |-> IF total # 0 THEN [num |-> booked * 100, den |-> total] ELSE [num |-> 0, den |-> 1],
      booked |-> booked, total |-> total]

computeUtilizationRange(rangeMap, rooms, startISO, endISO) ==
  LET days == Len(eachDateISO(startISO, endISO))
      total == Len(rooms) * HOURS_PER_DAY * days
      booked == Cardinality(rangeMap)
  IN [utilization |-> IF total # 0 THEN [num |-> booked * 100, den |-> total] ELSE [num |-> 0, den |-> 1],
      booked |-> booked, total |-> total]

\* ----- Daily stats -----
hoursArray == OPEN_HOUR..(CLOSE_HOUR - 1)

\* todayList: one entry per room of the list (by position) and opening hour whose cell is in the day
TodayEntries(bookings, dateISO, rooms) ==
  {<<i, h>> \in (1..Len(rooms)) \X hoursArray : <<dateISO, rooms[i].id, h>> \in DOMAIN bookings}

\* typeof item.priceNOK === 'number' ? item.priceNOK : (RATECARD[room.type] || 0);
\* a cell without a stored price has no priceNOK field
SlotRevenue(item, room) ==
  IF "priceNOK" \in DOMAIN item THEN item.priceNOK
  ELSE IF room.type \in DOMAIN RATECARD THEN RATECARD[room.type] ELSE 0

RECURSIVE SumRevenue(_, _, _, _)
SumRevenue(entries, bookings, dateISO, rooms) ==
  IF entries = {} THEN 0
  ELSE LET e == CHOOSE x \in entries : TRUE
       IN SlotRevenue(bookings[<<dateISO, rooms[e[1]].id, e[2]>>], rooms[e[1]])
          + SumRevenue(entries \ {e}, bookings, dateISO, rooms)

\* byTypeCounts[type] || 0
TypeCount(entries, bookings, dateISO, rooms, type) ==
  Cardinality({e \in entries : bookings[<<dateISO, rooms[e[1]].id, e[2]>>].type = type})

\* (solo count * energy.solo + band count * energy.band + preprod count * energy.preprod)
WeightedKwh(entries, bookings, dateISO, rooms, energy) ==
  TypeCount(entries, bookings, dateISO, rooms, "solo") * energy.solo
  + TypeCount(entries, bookings, dateISO, rooms, "band") * energy.band
  + TypeCount(entries, bookings, dateISO, rooms, "preprod") * energy.preprod

\* a quotient is held as the fraction num/den; x || 0 of a quotient that is 0 is 0
computeStats(bookings, dateISO, rooms, energy) ==
  LET entries == TodayEntries(bookings, dateISO, rooms)
      totalBooked == IF Cardinality(entries) # 0 THEN Cardinality(entries) ELSE 1
      weighted == WeightedKwh(entries, bookings, dateISO, rooms, energy)
  IN [revenueToday |-> SumRevenue(entries, bookings, dateISO, rooms),
      kwhPerBookedHour |-> IF weighted # 0 THEN [num |-> weighted, den |-> totalBooked]
                                            ELSE [num |-> 0, den |-> 1],
      todayList |-> entries,
      energy |-> energy]

\* base || (solo + band + preprod) / 3, over stats.todayList and stats.energy
computeBaselineEnergy(bookings, dateISO, rooms, stats) ==
  LET total == IF Cardinality(stats.todayList) # 0 THEN Cardinality(stats.todayList) ELSE 1
      weighted == WeightedKwh(stats.todayList, bookings, dateISO, rooms, stats.energy)
  IN IF weighted # 0 THEN [num |-> weighted, den |-> total]
     ELSE [num |-> stats.energy.solo + stats.energy.band + stats.energy.preprod, den |-> 3]

VARIABLES
  hasSupabase,      \* TRUE in Supabase mode, FALSE in local fallback mode
  session,          \* the signed-in user id, or Null
  bookings,         \* React state: local store / last refreshed day
  vouchers,         \* React state: the voucher ledger (a list)
  voucherRequired, bookForOthers, activeVoucherId, bookedFor, activeGroup,
  notice,
  busyCells,
  dateISO,
  rangeWeek, rangeMonth,
  db,               \* rows of public.bookings
  rooms,            \* React state: the room list
  pricing,          \* React state: the pricing configuration
  energy,           \* React state: the energy coefficients
  grants,           \* rows of public.access_grants
  now,              \* the clock the edge function reads
  accessModal,      \* React state: what the access modal shows
  eff,              \* the effects started by a change of dateISO
  shadow,           \* a local-fallback instance given the same requests (mode comparison only)
  nEvents,          \* user events so far
  pc,               \* per invocation: the await it is suspended at
  cl                \* per invocation: the values its closure holds

ui == <<voucherRequired, bookForOthers, activeVoucherId, bookedFor, activeGroup>>
ranges == <<rangeWeek, rangeMonth>>
procs == <<pc, cl>>
\* what the booking handlers and the header controls only read
env == <<hasSupabase, energy, rooms, pricing, now, accessModal, eff, shadow>>
vars == <<nEvents, env, grants, session, bookings, vouchers, ui, notice, busyCells, dateISO, ranges, db, procs>>

NoClosure == [op |-> "none"]

\* { open:false, grant:null, booking:null, error:null, loading:false }
ClosedModal == [open |-> FALSE, grant |-> Null, error |-> FALSE, loading |-> FALSE]

\* the local-fallback instance before any request: an empty store and the same ledger
ShadowOf(ledger) ==
  [store |-> EmptyStore, vouchers |-> ledger, rangeWeek |-> {}, rangeMonth |-> {},
   pending |-> [op |-> "none"], ev |-> 0]

NoShadow == ShadowOf(<< >>)

\* no effect of a date change is in flight
NoEffect == [day |-> "idle", range |-> "idle"]

Partners == {"P", "Q"}

\* the ledger loaded from local storage: the two default vouchers with any
\* remaining slot counts, or no voucher at all
InitialLedgers ==
  {<< [id |-> "v1", partner |-> "P", slots |-> n1],
      [id |-> "v2", partner |-> "Q", slots |-> n2] >> : n1, n2 \in 0..MaxSlots}
  \cup {<< >>}

\* a user event: counted, and none once MaxEvents have happened
UserEvent == nEvents < MaxEvents /\ nEvents' = nEvents + 1

\* invocations are interchangeable: a new one takes the first idle process
FirstIdle(p) ==
  \E i \in 1..Len(ProcSeq) :
    /\ ProcSeq[i] = p
    /\ pc[p] = "idle"
    /\ \A j \in 1..(i-1) : pc[ProcSeq[j]] # "idle"

\* the state after construction, but for the pricing configuration, the table
\* the server holds and the comparison instance
InitApp ==
  /\ nEvents = 0
  /\ hasSupabase \in BOOLEAN
  /\ session \in (IF hasSupabase THEN Users \cup {Null} ELSE {Null})
  /\ bookings = EmptyStore
  /\ vouchers \in InitialLedgers
  /\ voucherRequired = TRUE
  /\ bookForOthers = FALSE
  /\ activeVoucherId = (IF Len(vouchers) > 0 THEN vouchers[1].id ELSE "")
  /\ bookedFor = ""
  /\ activeGroup = "standard"
  /\ notice = ""
  /\ busyCells = {}
  /\ dateISO \in InitialDates
  /\ rangeWeek = {}
  /\ rangeMonth = {}
  /\ pc = [p \in Procs |-> "idle"]
  /\ cl = [p \in Procs |-> NoClosure]
  /\ rooms = DEFAULT_ROOMS
  /\ grants = {}
  /\ now = 0
  /\ accessModal = ClosedModal
  /\ eff = NoEffect
  /\ energy = DEFAULT_ENERGY

\* pricing = loadLS("pricing", DEFAULT_PRICING) with nothing stored; an empty table; no comparison instance
Init == InitApp /\ pricing = DEFAULT_PRICING /\ db = {} /\ shadow = NoShadow


\* ----- Header controls -----
SetVoucherRequired(v) ==
  /\ UserEvent
  /\ v # voucherRequired
  /\ voucherRequired' = v
  /\ UNCHANGED <<env, grants, session, bookings, vouchers, bookForOthers, activeVoucherId,
                 bookedFor, activeGroup, notice, busyCells, dateISO, ranges, db, procs>>

SetBookForOthers(v) ==
  /\ UserEvent
  /\ v # bookForOthers
  /\ bookForOthers' = v
  /\ UNCHANGED <<env, grants, session, bookings, vouchers, voucherRequired, activeVoucherId,
                 bookedFor, activeGroup, notice, busyCells, dateISO, ranges, db, procs>>

\* the select offers the ids of the vouchers in the ledger
SetActiveVoucherId(id) ==
  /\ UserEvent
  /\ id # activeVoucherId
  /\ \E i \in 1..Len(vouchers) : vouchers[i].id = id
  /\ activeVoucherId' = id
  /\ UNCHANGED <<env, grants, session, bookings, vouchers, voucherRequired, bookForOthers,
                 bookedFor, activeGroup, notice, busyCells, dateISO, ranges, db, procs>>

\* the name input is rendered only while bookForOthers is checked
SetBookedFor(s) ==
  /\ UserEvent
  /\ s # bookedFor
  /\ bookForOthers
  /\ bookedFor' = s
  /\ UNCHANGED <<env, grants, session, bookings, vouchers, voucherRequired, bookForOthers,
                 activeVoucherId, activeGroup, notice, busyCells, dateISO, ranges, db, procs>>

SetActiveGroup(g) ==
  /\ UserEvent
  /\ g # activeGroup
  /\ activeGroup' = g
  /\ UNCHANGED <<env, grants, session, bookings, vouchers, voucherRequired, bookForOthers,
                 activeVoucherId, bookedFor, notice, busyCells, dateISO, ranges, db, procs>>

\* ----- VoucherView: "Slett" -----
DeleteVoucher(id) ==
  /\ UserEvent
  /\ \E i \in 1..Len(vouchers) : vouchers[i].id = id
  /\ vouchers' = SelectSeq(vouchers, LAMBDA x : x.id # id)
  /\ UNCHANGED <<env, grants, session, bookings, ui, notice, busyCells, dateISO, ranges, db, procs>>

\* ----- Auth: onAuthStateChange -----
AuthStateChange(s) ==
  /\ UserEvent
  /\ hasSupabase
  /\ session # s
  /\ session' = s
  /\ UNCHANGED <<env, grants, bookings, vouchers, ui, notice, busyCells, dateISO, ranges, db, procs>>

\* ----- Booking handlers -----
\* the voucher gate of handleCreate: the notice it returns with, "" when it lets the call pass
VoucherGateNoCheck(mode) ==
  IF mode = "voucher" /\ activeVoucherId = "" THEN "selectVoucher" ELSE ""

VoucherGate(mode) ==
  IF mode = "voucher" /\ activeVoucherId = "" THEN "selectVoucher"
  ELSE IF mode = "voucher" /\ ~checkVoucherAvailable(vouchers, activeVoucherId) THEN "noSlots"
  ELSE ""

GroupCodeOf(g) == IF g = "" THEN "standard" ELSE g

\* mode === 'voucher' ? (vouchers.find(v=>v.id===activeVoucherId)?.partner || null) : null
VoucherPartnerFor(mode) ==
  IF mode = "voucher" THEN PartnerOfId(vouchers, activeVoucherId) ELSE Null

\* mode === 'external' ? (bookedFor?.trim() || null) : null
BookedForVal(mode) ==
  IF mode = "external" /\ Trim(bookedFor) # "" THEN Trim(bookedFor) ELSE Null

\* the voucher debit of a create that went through
DebitAlways(ledger, mode, id) == adjustVoucherSlots(ledger, id, -1)

DebitOnCreate(ledger, mode, id) ==
  IF mode = "voucher" /\ id # "" THEN adjustVoucherSlots(ledger, id, -1) ELSE ledger

\* the voucher credit of a delete: the first voucher of the partner in the
\* ledger the handler captured, applied to the current ledger
CreditOnDelete(ledger, captured, partner) ==
  IF partner = Null THEN ledger
  ELSE LET i == findVoucherByPartner(captured, partner)
       IN IF i = 0 THEN ledger ELSE adjustVoucherSlots(ledger, captured[i].id, 1)

HandleCreateLocal(b) ==
  /\ UserEvent
  /\ ~hasSupabase
  /\ LET mode == determineBookingMode(voucherRequired, bookForOthers)
         gate == VoucherGate(mode)
     IN IF gate # ""
        THEN /\ notice' = gate
             /\ UNCHANGED <<bookings, vouchers, bookedFor, ranges>>
        ELSE LET groupCode == GroupCodeOf(activeGroup)
                 price == computePrice(b.type, pricing, groupCode)
                 book == [date |-> b.date, roomId |-> b.roomId, hour |-> b.hour, type |-> b.type,
                          roomName |-> b.roomName,
                          voucherPartner |-> VoucherPartnerFor(mode),
                          bookedFor |-> BookedForVal(mode),
                          groupCode |-> groupCode, priceNOK |-> price, createdBy |-> "local"]
                 newStore == addBooking(bookings, book)
             IN /\ bookings' = newStore
                /\ vouchers' = DebitOnCreate(vouchers, mode, activeVoucherId)
                /\ bookedFor' = IF mode = "external" THEN "" ELSE bookedFor
                /\ rangeWeek' = filterRangeLocal(newStore, startOfWeekISO(dateISO), endOfWeekISO(dateISO))
                /\ rangeMonth' = filterRangeLocal(newStore, startOfMonthISO(dateISO), endOfMonthISO(dateISO))
                /\ UNCHANGED notice
  /\ UNCHANGED <<env, grants, session, voucherRequired, bookForOthers, activeVoucherId,
                 activeGroup, busyCells, dateISO, db, procs>>

HandleDeleteLocal(b) ==
  /\ UserEvent
  /\ ~hasSupabase
  /\ LET partner == IF SlotOf(b) \in DOMAIN bookings THEN bookings[SlotOf(b)].voucherPartner ELSE Null
         newStore == removeBooking(bookings, b)
     IN /\ vouchers' = CreditOnDelete(vouchers, vouchers, partner)
        /\ bookings' = newStore
        /\ rangeWeek' = filterRangeLocal(newStore, startOfWeekISO(dateISO), endOfWeekISO(dateISO))
        /\ rangeMonth' = filterRangeLocal(newStore, startOfMonthISO(dateISO), endOfMonthISO(dateISO))
  /\ UNCHANGED <<env, grants, session, ui, notice, busyCells, dateISO, db, procs>>


\* ----- Supabase: table public.bookings -----
KeyOf(b) == <<b.roomId, b.hour>>          \* `${b.roomId}-${b.hour}`

RowSlot(r) == <<r.date, r.room_id, r.hour>>

RowsAt(rows, slot) == {r \in rows : RowSlot(r) = slot}

\* insert under the unique index bookings_unique_slot: the new table and the error code
InsertNoIndex(rows, row) == [rows |-> rows \cup {row}, error |-> "none"]

\* an upsert on the slot in place of the insert
InsertUpsert(rows, row) ==
  [rows |-> {r \in rows : RowSlot(r) # RowSlot(row)} \cup {row}, error |-> "none"]

InsertRow(rows, row) ==
  IF RowsAt(rows, RowSlot(row)) # {}
  THEN [rows |-> rows, error |-> "23505"]
  ELSE [rows |-> rows \cup {row}, error |-> "none"]

\* delete ... eq(date).eq(room_id).eq(hour) under policy delete_owner_only:
\* rows of other creators are not visible to the delete and stay, without error
DeleteRows(rows, slot, uid) == {r \in rows : ~(RowSlot(r) = slot /\ r.created_by = uid)}

\* refreshBookings: row -> cell of the bookings state
RowToCell(r) ==
  [date |-> r.date, roomId |-> r.room_id, hour |-> r.hour, type |-> r.type,
   roomName |-> r.room_name,
   voucherPartner |-> r.voucher_partner, bookedFor |-> r.booked_for,
   groupCode |-> IF r.group_code = Null THEN "standard" ELSE r.group_code,
   priceNOK |-> r.price_nok, createdBy |-> r.created_by]

DayStore(rows) == [s \in {RowSlot(r) : r \in rows} |-> RowToCell(CHOOSE r \in rows : RowSlot(r) = s)]

\* refreshRange: the slots of the rows with startISO <= date <= endISO
RangeOf(rows, startISO, endISO) ==
  {RowSlot(r) : r \in {x \in rows : x.date >= startISO /\ x.date <= endISO}}

\* finally { const s = new Set(busyCells); s.delete(key); setBusyCells(s); }
Finally(p) ==
  /\ busyCells' = cl[p].busy \ {KeyOf(cl[p].b)}
  /\ pc' = [pc EXCEPT ![p] = "idle"]
  /\ cl' = [cl EXCEPT ![p] = NoClosure]

\* ----- handleCreate, Supabase path -----
\* the handler without its session check
HandleCreateStartNoSessionCheck(p, b) ==
  /\ UserEvent
  /\ hasSupabase
  /\ FirstIdle(p)
  /\ LET mode == determineBookingMode(voucherRequired, bookForOthers)
         gate == VoucherGate(mode)
         groupCode == GroupCodeOf(activeGroup)
         price == computePrice(b.type, pricing, groupCode)
     IN IF gate # ""
        THEN /\ notice' = gate
             /\ UNCHANGED <<busyCells, procs>>
        ELSE /\ busyCells' = busyCells \cup {KeyOf(b)}
             /\ cl' = [cl EXCEPT ![p] =
                        [op |-> "create", b |-> b, mode |-> mode,
                         voucherRequired |-> voucherRequired, bookForOthers |-> bookForOthers,
                         avid |-> activeVoucherId, busy |-> busyCells, dateISO |-> dateISO,
                         row |-> [date |-> b.date, room_id |-> b.roomId, hour |-> b.hour,
                                  type |-> b.type, room_name |-> b.roomName,
                                  voucher_partner |-> VoucherPartnerFor(mode),
                                  booked_for |-> BookedForVal(mode),
                                  group_code |-> groupCode, price_nok |-> price,
                                  created_by |-> session]]]
             /\ pc' = [pc EXCEPT ![p] = "insert"]
             /\ UNCHANGED notice
  /\ UNCHANGED <<env, grants, session, bookings, vouchers, ui, dateISO, ranges, db>>

HandleCreateStart(p, b) ==
  /\ UserEvent
  /\ hasSupabase
  /\ FirstIdle(p)
  /\ LET mode == determineBookingMode(voucherRequired, bookForOthers)
         gate == VoucherGate(mode)
         groupCode == GroupCodeOf(activeGroup)
         price == computePrice(b.type, pricing, groupCode)
     IN IF gate # ""
        THEN /\ notice' = gate
             /\ UNCHANGED <<busyCells, procs>>
        ELSE IF session = Null
        THEN /\ notice' = "loginToBook"
             /\ UNCHANGED <<busyCells, procs>>
        ELSE /\ busyCells' = busyCells \cup {KeyOf(b)}
             /\ cl' = [cl EXCEPT ![p] =
                        [op |-> "create", b |-> b, mode |-> mode,
                         voucherRequired |-> voucherRequired, bookForOthers |-> bookForOthers,
                         avid |-> activeVoucherId, busy |-> busyCells, dateISO |-> dateISO,
                         row |-> [date |-> b.date, room_id |-> b.roomId, hour |-> b.hour,
                                  type |-> b.type, room_name |-> b.roomName,
                                  voucher_partner |-> VoucherPartnerFor(mode),
                                  booked_for |-> BookedForVal(mode),
                                  group_code |-> groupCode, price_nok |-> price,
                                  created_by |-> session]]]
             /\ pc' = [pc EXCEPT ![p] = "insert"]
             /\ UNCHANGED notice
  /\ UNCHANGED <<env, grants, session, bookings, vouchers, ui, dateISO, ranges, db>>

\* await insert: the unique index decides, or the request fails for another
\* reason and nothing is stored; then the handler runs to refreshBookings or ends
CreateInsert(p) ==
  /\ UNCHANGED nEvents
  /\ pc[p] = "insert"
  /\ \E res \in {InsertRow(db, cl[p].row), [rows |-> db, error |-> "other"]} :
       /\ db' = res.rows
       /\ IF res.error # "none"
          THEN /\ notice' = IF res.error = "23505" THEN "slotTaken" ELSE "bookingError"
               /\ Finally(p)
               /\ UNCHANGED vouchers
          ELSE /\ vouchers' = DebitOnCreate(vouchers, cl[p].mode, cl[p].avid)
               /\ pc' = [pc EXCEPT ![p] = "refresh"]
               /\ UNCHANGED <<notice, busyCells, cl>>
  /\ UNCHANGED <<env, grants, session, bookings, ui, dateISO, ranges>>

\* ----- refreshBookings(b.date) and the two refreshRange calls (create and delete) -----
RefreshBookings(p) ==
  /\ UNCHANGED nEvents
  /\ pc[p] = "refresh"
  /\ bookings' = DayStore({r \in db : r.date = cl[p].b.date})
  /\ bookedFor' = IF cl[p].op = "create" /\ cl[p].mode = "external" THEN "" ELSE bookedFor
  /\ pc' = [pc EXCEPT ![p] = "week"]
  /\ UNCHANGED <<env, grants, session, vouchers, voucherRequired, bookForOthers, activeVoucherId,
                 activeGroup, notice, busyCells, dateISO, ranges, db, cl>>

RefreshWeek(p) ==
  /\ UNCHANGED nEvents
  /\ pc[p] = "week"
  /\ rangeWeek' = RangeOf(db, startOfWeekISO(cl[p].dateISO), endOfWeekISO(cl[p].dateISO))
  /\ pc' = [pc EXCEPT ![p] = "month"]
  /\ UNCHANGED <<env, grants, session, bookings, vouchers, ui, notice, busyCells, dateISO, rangeMonth, db, cl>>

RefreshMonth(p) ==
  /\ UNCHANGED nEvents
  /\ pc[p] = "month"
  /\ rangeMonth' = RangeOf(db, startOfMonthISO(cl[p].dateISO), endOfMonthISO(cl[p].dateISO))
  /\ Finally(p)
  /\ UNCHANGED <<env, grants, session, bookings, vouchers, ui, notice, dateISO, rangeWeek, db>>

\* ----- handleDelete, Supabase path -----
HandleDeleteStart(p, b) ==
  /\ UserEvent
  /\ hasSupabase
  /\ FirstIdle(p)
  /\ IF session = Null
     THEN /\ notice' = "loginToDelete"
          /\ UNCHANGED <<busyCells, procs>>
     ELSE /\ busyCells' = busyCells \cup {KeyOf(b)}
          /\ cl' = [cl EXCEPT ![p] =
                     [op |-> "delete", b |-> b, vouchers |-> vouchers, busy |-> busyCells,
                      dateISO |-> dateISO, uid |-> session,
                      bookingId |-> FALSE, voucherPartner |-> Null, revoke |-> "none"]]
          /\ pc' = [pc EXCEPT ![p] = "select"]
          /\ UNCHANGED notice
  /\ UNCHANGED <<env, grants, session, bookings, vouchers, ui, dateISO, ranges, db>>

\* await select id, voucher_partner, created_by ... maybeSingle(); with a
\* booking id the access_revoke function is awaited next, else the delete
DeleteSelect(p) ==
  /\ UNCHANGED nEvents
  /\ pc[p] = "select"
  /\ LET found == RowsAt(db, SlotOf(cl[p].b))
         partner == IF found = {} THEN Null ELSE (CHOOSE r \in found : TRUE).voucher_partner
     IN /\ cl' = [cl EXCEPT ![p].bookingId = (found # {}), ![p].voucherPartner = partner]
        /\ pc' = [pc EXCEPT ![p] = IF found # {} THEN "revoke" ELSE "delete"]
  /\ UNCHANGED <<env, grants, session, bookings, vouchers, ui, notice, busyCells, dateISO, ranges, db>>

\* access_revoke: update access_grants set status = 'revoked' where booking_id = ... and status = 'issued'
\* (a booking's id is modelled by its slot: the table holds one row per slot)
RevokeGrants(gs, bookingId) ==
  {IF g.booking_id = bookingId /\ g.status = "issued" THEN [g EXCEPT !.status = "revoked"] ELSE g : g \in gs}

\* access_grants.booking_id references bookings(id) on delete cascade
CascadeGrants(gs, rows) == {g \in gs : RowsAt(rows, g.booking_id) # {}}

\* a failed access_revoke call ends the handler
AccessRevokeBlocking(p) ==
  /\ UNCHANGED nEvents
  /\ pc[p] = "revoke"
  /\ \E ok \in BOOLEAN :
       /\ grants' = IF ok THEN RevokeGrants(grants, SlotOf(cl[p].b)) ELSE grants
       /\ IF ok
          THEN /\ pc' = [pc EXCEPT ![p] = "delete"]
               /\ cl' = [cl EXCEPT ![p].revoke = "ok"]
               /\ UNCHANGED busyCells
          ELSE Finally(p)
  /\ UNCHANGED <<env, session, bookings, vouchers, ui, notice, dateISO, ranges, db>>

\* try { await supabase.functions.invoke('access_revoke', ...) } catch (_) {}
\* the function marks the grants revoked, or the call fails (it throws, or it
\* answers with an error) and marks nothing; its result is not looked at
AccessRevoke(p) ==
  /\ UNCHANGED nEvents
  /\ pc[p] = "revoke"
  /\ \E ok \in BOOLEAN :
       /\ grants' = IF ok THEN RevokeGrants(grants, SlotOf(cl[p].b)) ELSE grants
       /\ cl' = [cl EXCEPT ![p].revoke = IF ok THEN "ok" ELSE "failed"]
  /\ pc' = [pc EXCEPT ![p] = "delete"]
  /\ UNCHANGED <<env, session, bookings, vouchers, ui, notice, busyCells, dateISO, ranges, db>>

\* await delete: the table removes what the policy lets it, or the request
\* fails and nothing is removed; then the handler runs to refreshBookings or ends
DeleteExec(p) ==
  /\ UNCHANGED nEvents
  /\ pc[p] = "delete"
  /\ \E res \in {[rows |-> DeleteRows(db, SlotOf(cl[p].b), cl[p].uid), error |-> "none"],
                 [rows |-> db, error |-> "other"]} :
       /\ db' = res.rows
       /\ grants' = CascadeGrants(grants, res.rows)
       /\ IF res.error # "none"
          THEN /\ notice' = "ownerOnly"
               /\ Finally(p)
               /\ UNCHANGED vouchers
          ELSE /\ vouchers' = CreditOnDelete(vouchers, cl[p].vouchers, cl[p].voucherPartner)
               /\ pc' = [pc EXCEPT ![p] = "refresh"]
               /\ UNCHANGED <<notice, busyCells, cl>>
  /\ UNCHANGED <<env, session, bookings, ui, dateISO, ranges>>

\* ----- specification -----
Next ==
  \/ \E v \in BOOLEAN : SetVoucherRequired(v)
  \/ \E v \in BOOLEAN : SetBookForOthers(v)
  \/ \E id \in {"v1", "v2"} : SetActiveVoucherId(id)
  \/ \E s \in LabelInputs : SetBookedFor(s)
  \/ \E g \in Groups : SetActiveGroup(g)
  \/ \E id \in {"v1", "v2"} : DeleteVoucher(id)
  \/ \E s \in Users \cup {Null} : AuthStateChange(s)
  \/ \E b \in BookingArgs : HandleCreateLocal(b)
  \/ \E b \in BookingArgs : HandleDeleteLocal(b)
  \/ \E p \in Procs, b \in BookingArgs : HandleCreateStart(p, b)
  \/ \E p \in Procs : CreateInsert(p)
  \/ \E p \in Procs : RefreshBookings(p)
  \/ \E p \in Procs : RefreshWeek(p)
  \/ \E p \in Procs : RefreshMonth(p)
  \/ \E p \in Procs, b \in BookingArgs : HandleDeleteStart(p, b)
  \/ \E p \in Procs : DeleteSelect(p)
  \/ \E p \in Procs : AccessRevoke(p)
  \/ \E p \in Procs : DeleteExec(p)

Spec == Init /\ [][Next]_vars


\* ======================= the admin and voucher views =======================
\* ----- VoucherView -----
NewVoucherIds == {"v3"}           \* what nextId() returns for a voucher created in the view
PartnerInputs == {"", "R"}        \* the partner input
SlotInputs == {-1, 0, 2}          \* Number(slots) of the number input (NaN gives 0)

\* "Opprett": if(!partner) return; setVouchers([...vouchers, { id: nextId(), partner, slots: Number(slots)||0 }])
CreateVoucher(id, partner, slots) ==
  /\ UserEvent
  /\ \A i \in 1..Len(vouchers) : vouchers[i].id # id
  /\ vouchers' = IF partner = "" THEN vouchers
                 ELSE Append(vouchers, [id |-> id, partner |-> partner, slots |-> slots])
  /\ UNCHANGED <<env, grants, session, bookings, ui, notice, busyCells, dateISO, ranges, db, procs>>

\* "+5" / "-5": setVouchers(adjustVoucherSlots(vouchers, v.id, +5 / -5))
AdjustVoucher(id, delta) ==
  /\ UserEvent
  /\ \E i \in 1..Len(vouchers) : vouchers[i].id = id
  /\ vouchers' = adjustVoucherSlots(vouchers, id, delta)
  /\ UNCHANGED <<env, grants, session, bookings, ui, notice, busyCells, dateISO, ranges, db, procs>>

\* ----- AdminView -----
NewRoomIds == {"n1"}              \* what nextId() returns for an added room
MultInputs == {0, 50, 120}        \* Number(v) of a multiplier input, in hundredths (NaN and 0 are falsy)

\* default of the input of each group: Number(v)||1, ||0.7, ||0.75
MultDefault(g) == IF g = "standard" THEN 100 ELSE IF g = "kulturskole" THEN 70 ELSE 75

\* setPricing(curr=> ({...curr, groups:{...curr.groups, [g]: Number(v)||default}}))
SetGroupMultiplier(g, v) ==
  /\ UserEvent
  /\ LET m == IF v = 0 THEN MultDefault(g) ELSE v
         new == [x \in DOMAIN pricing.groups \cup {g} |-> IF x = g THEN m ELSE pricing.groups[x]]
     IN /\ new # pricing.groups
        /\ pricing' = [pricing EXCEPT !.groups = new]
  /\ UNCHANGED <<hasSupabase, energy, rooms, now, accessModal, eff, shadow, grants, session, bookings,
                 vouchers, ui, notice, busyCells, dateISO, ranges, db, procs>>

TypeLabel(type) == IF type = "solo" THEN "Solo" ELSE IF type = "band" THEN "Band" ELSE "Preprod"

\* addRoom: idx = rooms of the type + 1; [...rooms, { id: nextId(), name: `${typeLabel(type)} ${idx}`, type }]
addRoom(id, type) ==
  /\ UserEvent
  /\ \A i \in 1..Len(rooms) : rooms[i].id # id
  /\ LET idx == Cardinality({i \in 1..Len(rooms) : rooms[i].type = type}) + 1
     IN rooms' = Append(rooms, [id |-> id, name |-> <<TypeLabel(type), idx>>, type |-> type])
  /\ UNCHANGED <<hasSupabase, energy, pricing, now, accessModal, eff, shadow, grants, session, bookings,
                 vouchers, ui, notice, busyCells, dateISO, ranges, db, procs>>

removeRoom(id) ==
  /\ UserEvent
  /\ \E i \in 1..Len(rooms) : rooms[i].id = id
  /\ rooms' = SelectSeq(rooms, LAMBDA r : r.id # id)
  /\ UNCHANGED <<hasSupabase, energy, pricing, now, accessModal, eff, shadow, grants, session, bookings,
                 vouchers, ui, notice, busyCells, dateISO, ranges, db, procs>>

NextAdmin ==
  \/ Next
  \/ \E id \in NewVoucherIds, n \in PartnerInputs, k \in SlotInputs : CreateVoucher(id, n, k)
  \/ \E id \in {"v1", "v2"} \cup NewVoucherIds, delta \in {5, -5} : AdjustVoucher(id, delta)
  \/ \E g \in DOMAIN DEFAULT_PRICING.groups, v \in MultInputs : SetGroupMultiplier(g, v)
  \/ \E id \in NewRoomIds, t \in {"solo", "band", "preprod"} : addRoom(id, t)
  \/ \E id \in {"s1", "b1"} \cup NewRoomIds : removeRoom(id)

\* the application as Init starts it, with user u1 signed in when in Supabase
\* mode and the second default voucher holding one slot
InitAdmin ==
  /\ Init
  /\ hasSupabase => session = "u1"
  /\ Len(vouchers) = 2 /\ vouchers[2].slots = 1

SpecAdmin == InitAdmin /\ [][NextAdmin]_vars


\* ======================= properties =======================

\* a voucher of the ledger before the step has fewer / more slots after it
Debited == \E i \in 1..Len(vouchers), j \in 1..Len(vouchers') :
             vouchers'[j].id = vouchers[i].id /\ vouchers'[j].slots < vouchers[i].slots
Credited == \E i \in 1..Len(vouchers), j \in 1..Len(vouchers') :
              vouchers'[j].id = vouchers[i].id /\ vouchers'[j].slots > vouchers[i].slots

\* the step stored / removed a booking in the store of the mode
Inserted == IF hasSupabase THEN db' \ db # {} ELSE DOMAIN bookings' \ DOMAIN bookings # {}
Removed == IF hasSupabase THEN db \ db' # {} ELSE DOMAIN bookings \ DOMAIN bookings' # {}

\* the insert of invocation p is answered in this step, with success / with an error
InsertAnswered(p) == pc[p] = "insert" /\ pc'[p] # "insert"
InsertOk(p) == pc[p] = "insert" /\ pc'[p] = "refresh"

\* C1: at most one booking per (date, room id, hour) slot in every reachable
\* state of either mode.  The table never holds two rows for one slot, an
\* insert reports success exactly when the slot was free and its row is then
\* the slot's only row, an insert on an occupied slot stores nothing; the
\* local store is keyed by the slot of the booking it holds, and a local
\* create never replaces the booking of an occupied slot.
C1_SlotUniqueState ==
  /\ \A r1, r2 \in db : RowSlot(r1) = RowSlot(r2) => r1 = r2
  /\ \A s \in DOMAIN bookings : SlotOf(bookings[s]) = s

C1_SlotUniqueStep ==
  /\ \A p \in Procs :
       InsertAnswered(p) =>
         IF InsertOk(p)
         THEN /\ RowsAt(db, RowSlot(cl[p].row)) = {}
              /\ RowsAt(db', RowSlot(cl[p].row)) = {cl[p].row}
         ELSE db' = db
  /\ (\E b \in BookingArgs : HandleCreateLocal(b)) =>
       \A s \in DOMAIN bookings : s \in DOMAIN bookings' /\ bookings'[s] = bookings[s]

C1_AtMostOneBookingPerSlot == [](C1_SlotUniqueState) /\ [][C1_SlotUniqueStep]_vars

\* two inserts for one slot were in flight together: one stored its row and
\* runs on, the other was answered with the uniqueness violation
C1_Witness ==
  \E p, q \in Procs :
    /\ p # q
    /\ pc[p] = "refresh" /\ cl[p].op = "create"
    /\ pc[q] = "idle" /\ notice = "slotTaken"
    /\ db = {cl[p].row}
    /\ nEvents = 2


\* C2: a handleCreate call decrements a voucher only if that same call
\* inserted the booking: a step that lowers a voucher's slot count also stores
\* a booking (in the local store, or as a row of the table).
C2_DebitOnlyIfInserted == [][Debited => Inserted]_vars

\* C3: a voucher-mode booking is admitted only if the selected voucher still
\* has at least 1 slot at the moment it is debited.
C3_AvailableWhenDebited ==
  [][\A p \in Procs :
       (InsertOk(p) /\ cl[p].mode = "voucher") => checkVoucherAvailable(vouchers, cl[p].avid)]_vars

\* C4: a voucher is credited by a delete only if that delete removed a
\* booking: a step that raises a voucher's slot count also removes a booking.
C4_CreditOnlyIfRemoved == [][Credited => Removed]_vars


\* some handleCreate call starts in this step (the whole call in local mode)
CreateCalled ==
  \/ \E b \in BookingArgs : HandleCreateLocal(b)
  \/ \E p \in Procs, b \in BookingArgs : HandleCreateStart(p, b)

\* C5: in voucher mode a handleCreate with no active voucher id, or with a
\* selected voucher that is not in the ledger or has 0 slots, is blocked
\* entirely: the notice is set, and the booking store (local store and table),
\* the voucher ledger and the invocations are as before the call.
C5_VoucherGateBlocks ==
  [][(CreateCalled /\ ~bookForOthers /\ voucherRequired
        /\ (activeVoucherId = "" \/ ~checkVoucherAvailable(vouchers, activeVoucherId)))
     => /\ notice' = (IF activeVoucherId = "" THEN "selectVoucher" ELSE "noSlots")
        /\ UNCHANGED <<bookings, db, vouchers, busyCells, pc, cl>>]_vars

\* a voucher-mode create was just refused for an exhausted voucher
C5_Witness ==
  /\ notice = "noSlots"
  /\ ~bookForOthers /\ voucherRequired
  /\ activeVoucherId # "" /\ ~checkVoucherAvailable(vouchers, activeVoucherId)
  /\ nEvents = 1
  /\ db = {} /\ bookings = EmptyStore

\* the ledger after the selected voucher lost exactly one slot
MinusOne(ledger, id) ==
  [i \in 1..Len(ledger) |->
     IF ledger[i].id = id THEN [ledger[i] EXCEPT !.slots = @ - 1] ELSE ledger[i]]

\* C6: a successful voucher-mode handleCreate lowers the selected voucher's
\* slot count by exactly 1, leaves every other voucher unchanged, and stores
\* the selected voucher's partner name as the booking's voucher reference.
C6_DebitExactlyOne ==
  [][/\ \A p \in Procs :
          (InsertOk(p) /\ cl[p].mode = "voucher") =>
            /\ FindById(vouchers, cl[p].avid) # 0
            /\ vouchers' = MinusOne(vouchers, cl[p].avid)
            /\ cl[p].row.voucher_partner = PartnerOfId(vouchers, cl[p].avid)
     /\ \A b \in BookingArgs :
          (HandleCreateLocal(b) /\ ~bookForOthers /\ voucherRequired
             /\ SlotOf(b) \in DOMAIN bookings' \ DOMAIN bookings) =>
            /\ FindById(vouchers, activeVoucherId) # 0
            /\ vouchers' = MinusOne(vouchers, activeVoucherId)
            /\ bookings'[SlotOf(b)].voucherPartner = PartnerOfId(vouchers, activeVoucherId)]_vars

\* C7: handleCreate in external mode (bookForOthers true, whatever
\* voucherRequired and the active voucher are) and in open mode is never
\* blocked by the voucher gate, changes no voucher balance, and stores a null
\* voucher reference on the booking it creates.
C7_NoVoucherOutsideVoucherMode ==
  [][/\ \A b \in BookingArgs :
          (HandleCreateLocal(b) /\ (bookForOthers \/ ~voucherRequired)) =>
            /\ vouchers' = vouchers
            /\ notice' = notice
            /\ SlotOf(b) \in DOMAIN bookings'
            /\ SlotOf(b) \notin DOMAIN bookings => bookings'[SlotOf(b)].voucherPartner = Null
     /\ \A p \in Procs, b \in BookingArgs :
          (HandleCreateStart(p, b) /\ (bookForOthers \/ ~voucherRequired)) =>
            /\ vouchers' = vouchers
            /\ notice' \notin {"selectVoucher", "noSlots"} \ {notice}
            /\ session # Null =>
                 /\ pc'[p] = "insert"
                 /\ cl'[p].row.voucher_partner = Null
     /\ \A p \in Procs :
          (InsertAnswered(p) /\ (cl[p].bookForOthers \/ ~cl[p].voucherRequired)) =>
            /\ vouchers' = vouchers
            /\ \A r \in db' \ db : r.voucher_partner = Null]_vars

\* a booking made for someone else while a voucher was required and the
\* selected voucher was exhausted or none was selected
C7_Witness ==
  /\ bookForOthers /\ voucherRequired
  /\ ~checkVoucherAvailable(vouchers, activeVoucherId)
  /\ \/ \E s \in DOMAIN bookings : /\ bookings[s].createdBy = "local"
                                    /\ bookings[s].bookedFor = "Ola"
                                    /\ bookings[s].voucherPartner = Null
     \/ \E p \in Procs : pc[p] = "refresh" /\ cl[p].op = "create" /\ cl[p].bookForOthers
                          /\ cl[p].row \in db /\ cl[p].row.voucher_partner = Null

\* C8: determineBookingMode returns exactly one of external, voucher, open:
\* external whenever bookForOthers is true, voucher when bookForOthers is
\* false and voucherRequired is true, open when both are false; for the flags
\* of the current render and for the flags every create in flight was called with.
ModeTable(m, vr, bfo) ==
  /\ m \in {"external", "voucher", "open"}
  /\ bfo => m = "external"
  /\ (~bfo /\ vr) => m = "voucher"
  /\ (~bfo /\ ~vr) => m = "open"

C8_ModeTable ==
  /\ ModeTable(determineBookingMode(voucherRequired, bookForOthers), voucherRequired, bookForOthers)
  /\ \A p \in Procs :
       cl[p].op = "create" => ModeTable(cl[p].mode, cl[p].voucherRequired, cl[p].bookForOthers)

\* a create in flight that was called with both flags set
C8_Witness ==
  \E p \in Procs :
    cl[p].op = "create" /\ cl[p].bookForOthers /\ cl[p].voucherRequired /\ cl[p].mode = "external"


\* the ledger after the first voucher of the partner gained exactly one slot
\* (no upper clamp); the ledger itself when the reference is null or no
\* voucher of the partner is in the ledger
PlusOneFor(ledger, partner) ==
  LET i == IF partner = Null THEN 0 ELSE findVoucherByPartner(ledger, partner)
  IN [k \in 1..Len(ledger) |->
        IF k = i THEN [ledger[k] EXCEPT !.slots = @ + 1] ELSE ledger[k]]

\* C9: handleDelete of an existing booking that holds a voucher reference
\* removes the booking and raises the referenced partner's voucher by exactly
\* 1; handleDelete of a booking with no voucher reference leaves the whole
\* ledger unchanged.  (Remote: a delete request that is answered without error
\* while the slot holds a row.)
C9_DeleteCreditsOnce ==
  [][/\ \A b \in BookingArgs :
          (HandleDeleteLocal(b) /\ SlotOf(b) \in DOMAIN bookings) =>
            /\ SlotOf(b) \notin DOMAIN bookings'
            /\ vouchers' = PlusOneFor(vouchers, bookings[SlotOf(b)].voucherPartner)
     /\ \A p \in Procs :
          (pc[p] = "delete" /\ pc'[p] = "refresh" /\ RowsAt(db, SlotOf(cl[p].b)) # {}) =>
            /\ RowsAt(db', SlotOf(cl[p].b)) = {}
            /\ \A r \in RowsAt(db, SlotOf(cl[p].b)) :
                 vouchers' = PlusOneFor(vouchers, r.voucher_partner)]_vars

\* bookings that can be offered to addBooking for the slots of BookingArgs
CandidateBookings ==
  {[date |-> b.date, roomId |-> b.roomId, hour |-> b.hour, type |-> t,
    roomName |-> b.roomName,
    voucherPartner |-> vp, bookedFor |-> bf, groupCode |-> g,
    priceNOK |-> computePrice(t, DEFAULT_PRICING, g), createdBy |-> "local"] :
     b \in BookingArgs, t \in {"solo", "band"}, vp \in Partners \cup {Null},
     bf \in {Null, "Ola"}, g \in Groups}

\* C10: for every store and every booking b whose slot is occupied,
\* addBooking(store, b) is the store it was given, whatever b's attributes;
\* and a local handleCreate on an occupied slot leaves the store as it was.
C10_AddOccupiedState ==
  \A b \in CandidateBookings : SlotOf(b) \in DOMAIN bookings => addBooking(bookings, b) = bookings

C10_AddOccupiedStep ==
  \A b \in BookingArgs :
    (HandleCreateLocal(b) /\ SlotOf(b) \in DOMAIN bookings) => bookings' = bookings

C10_AddOccupiedIsNoOp == [](C10_AddOccupiedState) /\ [][C10_AddOccupiedStep]_vars

\* a local store with two bookings, one of them in a slot for which a booking
\* with other attributes is offered
C10_Witness ==
  /\ ~hasSupabase
  /\ Cardinality(DOMAIN bookings) = 2
  /\ \E b \in CandidateBookings :
       /\ SlotOf(b) \in DOMAIN bookings
       /\ b.groupCode # bookings[SlotOf(b)].groupCode
       /\ b.voucherPartner # bookings[SlotOf(b)].voucherPartner


\* C12: once a booking is stored, its attributes (room type, room name,
\* voucher reference, booked-for label, group code, price, creator) are the
\* same in every later state until it is deleted: whatever step is taken (a
\* create on its slot, a change of a group multiplier, of the active group, of
\* a voucher, of the room list), a booking of the local store that is still
\* there is the same record, and a row of the table is still there unchanged
\* or its slot holds no row.
C12_StoredAttributesKept ==
  [][/\ ~hasSupabase => \A s \in DOMAIN bookings \cap DOMAIN bookings' : bookings'[s] = bookings[s]
     /\ \A r \in db : r \in db' \/ RowsAt(db', RowSlot(r)) = {}]_vars

\* a stored booking whose price is no longer the price of its type and group
\* under the current multipliers (in Supabase mode: after a refused create on its slot)
C12_Witness ==
  /\ nEvents = 3
  /\ \/ \E s \in DOMAIN bookings :
          /\ ~hasSupabase
          /\ bookings[s].priceNOK # computePrice(bookings[s].type, pricing, bookings[s].groupCode)
     \/ \E r \in db :
          /\ r.price_nok # computePrice(r.type, pricing, r.group_code)
          /\ notice = "slotTaken"

\* C13: in Supabase mode a delete attempted by a signed-in user who is not
\* the booking's creator is refused: when the delete request of such a user is
\* answered the row is still in the table, no voucher is credited and the
\* not-authorized notice is set; and a row leaves the table only by a delete
\* of its creator.
C13_NonCreatorDeleteRefused ==
  [][/\ \A p \in Procs :
          (/\ pc[p] = "delete" /\ pc'[p] # "delete"
           /\ \E r \in RowsAt(db, SlotOf(cl[p].b)) : r.created_by # cl[p].uid)
          => /\ db' = db
             /\ vouchers' = vouchers
             /\ notice' = "ownerOnly"
     /\ \A r \in db \ db' :
          \E p \in Procs : pc[p] = "delete" /\ cl[p].uid = r.created_by /\ SlotOf(cl[p].b) = RowSlot(r)]_vars

\* C14: in every reachable state every voucher's remaining slot count is >= 0,
\* whatever vouchers were created (with any entered slot number), adjusted by
\* +5 / -5, debited by bookings and credited by deletions.
C14_SlotsNeverNegative == \A i \in 1..Len(vouchers) : vouchers[i].slots >= 0

\* ======================= the pure helpers on their own =======================
\* the state every specification of a pure helper keeps fixed
Quiet ==
  /\ nEvents = 0
  /\ hasSupabase = FALSE /\ session = Null
  /\ voucherRequired = TRUE /\ bookForOthers = FALSE /\ bookedFor = "" /\ activeGroup = "standard"
  /\ notice = "" /\ busyCells = {}
  /\ db = {} /\ grants = {} /\ now = 0
  /\ accessModal = ClosedModal /\ eff = NoEffect /\ shadow = NoShadow
  /\ energy = DEFAULT_ENERGY
  /\ pc = [p \in Procs |-> "idle"]
  /\ cl = [p \in Procs |-> NoClosure]

\* ----- addBooking / removeBooking on stores over two days, two rooms, two hours -----
StoreDates == {29, 30}
StoreHours == {OPEN_HOUR, OPEN_HOUR + 1}

\* the bookings offered to the store helpers: every slot, with and without a voucher reference
StoreBookings ==
  {[date |-> d, roomId |-> DEFAULT_ROOMS[i].id, hour |-> h, type |-> DEFAULT_ROOMS[i].type,
    roomName |-> DEFAULT_ROOMS[i].name,
    voucherPartner |-> vp, bookedFor |-> Null, groupCode |-> "standard",
    priceNOK |-> computePrice(DEFAULT_ROOMS[i].type, DEFAULT_PRICING, "standard"),
    createdBy |-> "local"] :
     d \in StoreDates, i \in 1..Len(DEFAULT_ROOMS), h \in StoreHours, vp \in {Null, "P"}}

InitStore ==
  /\ Quiet
  /\ bookings = EmptyStore
  /\ vouchers = << >> /\ activeVoucherId = ""
  /\ dateISO = 29 /\ rangeWeek = {} /\ rangeMonth = {}
  /\ rooms = DEFAULT_ROOMS /\ pricing = DEFAULT_PRICING

ApplyAddBooking(b) ==
  /\ bookings' = addBooking(bookings, b)
  /\ UNCHANGED <<nEvents, env, grants, session, vouchers, ui, notice, busyCells, dateISO, ranges, db, procs>>

ApplyRemoveBooking(b) ==
  /\ bookings' = removeBooking(bookings, b)
  /\ UNCHANGED <<nEvents, env, grants, session, vouchers, ui, notice, busyCells, dateISO, ranges, db, procs>>

NextStore ==
  \/ \E b \in StoreBookings : ApplyAddBooking(b)
  \/ \E b \in StoreBookings : ApplyRemoveBooking(b)

SpecStore == InitStore /\ [][NextStore]_vars

\* C11: removeBooking(store, b) on a slot that holds no booking is the store
\* it was given; on an occupied slot it is a store in which that slot is free
\* and every other slot holds the booking it held.
C11_RemoveResult(store, b, out) ==
  IF SlotOf(b) \notin DOMAIN store
  THEN out = store
  ELSE /\ DOMAIN out = DOMAIN store \ {SlotOf(b)}
       /\ \A s \in DOMAIN out : out[s] = store[s]

C11_RemoveState == \A b \in StoreBookings : C11_RemoveResult(bookings, b, removeBooking(bookings, b))

C11_RemoveStep == \A b \in StoreBookings : ApplyRemoveBooking(b) => C11_RemoveResult(bookings, b, bookings')

C11_RemoveFreesOnlyItsSlot == [](C11_RemoveState) /\ [][C11_RemoveStep]_vars

\* a store that holds both hours of one room on one day and a booking of the
\* other room and of the other day, and has a free slot
C11_Witness ==
  /\ {<<29, "s1", OPEN_HOUR>>, <<29, "s1", OPEN_HOUR + 1>>, <<29, "b1", OPEN_HOUR>>,
      <<30, "s1", OPEN_HOUR>>} \subseteq DOMAIN bookings
  /\ <<30, "b1", OPEN_HOUR>> \notin DOMAIN bookings


\* ----- adjustVoucherSlots on ledgers of up to two vouchers -----
AdjustIds == {"v1", "v2", "zz"}       \* zz: the id of no voucher
AdjustDeltas == {-5, -1, 1, 5}        \* the deltas the application uses

InitLedger ==
  /\ Quiet
  /\ vouchers \in InitialLedgers
  /\ activeVoucherId = ""
  /\ bookings = EmptyStore
  /\ dateISO = 29 /\ rangeWeek = {} /\ rangeMonth = {}
  /\ rooms = DEFAULT_ROOMS /\ pricing = DEFAULT_PRICING

ApplyAdjust(id, delta) ==
  /\ delta > 0 => \A i \in 1..Len(vouchers) : vouchers[i].slots <= MaxBalance
  /\ vouchers' = adjustVoucherSlots(vouchers, id, delta)
  /\ UNCHANGED <<nEvents, env, grants, session, bookings, ui, notice, busyCells, dateISO, ranges, db, procs>>

NextLedger == \E id \in AdjustIds, delta \in AdjustDeltas : ApplyAdjust(id, delta)

SpecLedger == InitLedger /\ [][NextLedger]_vars

\* C15: for every ledger, id and signed delta, adjustVoucherSlots returns a
\* ledger of the same vouchers in the same order in which the voucher with
\* that id has slots = max(0, slots + delta) and every other voucher is
\* unchanged; when no voucher has the id the result is the ledger it was given.
C15_AdjustResult(ledger, id, delta, out) ==
  /\ Len(out) = Len(ledger)
  /\ \A i \in 1..Len(ledger) :
       IF ledger[i].id = id
       THEN /\ out[i].id = id /\ out[i].partner = ledger[i].partner
            /\ out[i].slots = (IF ledger[i].slots + delta > 0 THEN ledger[i].slots + delta ELSE 0)
       ELSE out[i] = ledger[i]
  /\ (\A i \in 1..Len(ledger) : ledger[i].id # id) => out = ledger

C15_AdjustState ==
  \A id \in AdjustIds, delta \in AdjustDeltas :
    C15_AdjustResult(vouchers, id, delta, adjustVoucherSlots(vouchers, id, delta))

C15_AdjustStep ==
  \A id \in AdjustIds, delta \in AdjustDeltas :
    ApplyAdjust(id, delta) => C15_AdjustResult(vouchers, id, delta, vouchers')

C15_AdjustClampsAtZero == [](C15_AdjustState) /\ [][C15_AdjustStep]_vars

\* a ledger in which one voucher was raised by +5 and the other stands at 0,
\* so that a negative delta clamps one voucher and not the other
C15_Witness ==
  /\ Len(vouchers) = 2
  /\ vouchers[1].slots = 0
  /\ vouchers[2].slots > MaxSlots + 5


\* ----- computePrice, and the price handleCreate stores -----
\* pricing configurations local storage can hold: the default, one without
\* the discount groups, one whose base prices differ from the rate card, one
\* whose base has no price for band and preprod
PricingInputs ==
  {DEFAULT_PRICING,
   [base |-> RATECARD, groups |-> [standard |-> 100]],
   [base |-> [solo |-> 150, band |-> 250, preprod |-> 799], groups |-> DEFAULT_PRICING.groups],
   [base |-> [solo |-> 150], groups |-> DEFAULT_PRICING.groups]}

PriceTypes == {"solo", "band", "preprod", "drums"}           \* drums: on no rate card
PriceGroups == {"", "standard", "kulturskole", "kulturenheten", "ukjent"}

InitPrice ==
  /\ InitApp
  /\ pricing \in PricingInputs
  /\ db = {}
  /\ shadow = NoShadow
  /\ hasSupabase => session = "u1"
  /\ vouchers = << [id |-> "v1", partner |-> "P", slots |-> MaxSlots],
                   [id |-> "v2", partner |-> "Q", slots |-> 1] >>

NextPrice ==
  \/ \E g \in DOMAIN DEFAULT_PRICING.groups, v \in MultInputs : SetGroupMultiplier(g, v)
  \/ \E g \in Groups : SetActiveGroup(g)
  \/ \E b \in BookingArgs : HandleCreateLocal(b)
  \/ \E p \in Procs, b \in BookingArgs : HandleCreateStart(p, b)
  \/ \E p \in Procs : CreateInsert(p)
  \/ \E p \in Procs : RefreshBookings(p)
  \/ \E p \in Procs : RefreshWeek(p)
  \/ \E p \in Procs : RefreshMonth(p)

SpecPrice == InitPrice /\ [][NextPrice]_vars

\* the multiplier of a group code in a configuration, in hundredths: 1.0 for
\* a code the configuration does not know; no code means standard
C16_Mult(cfg, g) ==
  LET code == IF g = "" THEN "standard" ELSE g
  IN IF code \in DOMAIN cfg.groups THEN cfg.groups[code] ELSE 100

\* out is base * mult / 100 rounded to the nearest integer, halves upwards
C16_Rounds(out, base, mult) == 100 * out - 50 <= base * mult /\ base * mult < 100 * out + 50

\* the base of the claim: the configuration's, 0 for a type it does not know
C16_BaseOfConfig(cfg, t) == IF t \in DOMAIN cfg.base THEN cfg.base[t] ELSE 0

\* the base of the amended claim: the configuration's, else the rate card's, else 0
C16_BaseWithRatecard(cfg, t) ==
  IF t \in DOMAIN cfg.base THEN cfg.base[t]
  ELSE IF t = "solo" THEN 199 ELSE IF t = "band" THEN 399 ELSE IF t = "preprod" THEN 799 ELSE 0

\* C16 (as claimed): for every pricing configuration, room type and group
\* code, computePrice is round(base[type] x multiplier[group]) of that
\* configuration, with multiplier 1.0 for an unknown group code and base 0 for
\* an unknown room type.
C16_PriceFromConfigOnly ==
  \A t \in PriceTypes, g \in PriceGroups :
    C16_Rounds(computePrice(t, pricing, g), C16_BaseOfConfig(pricing, t), C16_Mult(pricing, g))

\* C16 (amended): computePrice is round(base x multiplier[group]) where base
\* is the configuration's base price of the room type, the rate card's price
\* when the configuration has none for the type, and 0 when the type is on
\* neither; the multiplier is 1.0 for an unknown group code.  The price
\* handleCreate stores on a booking (local store) or sends with the insert
\* (table) is this value for the booking's room type and the active group, and
\* solo 199 under kulturskole 0.7 is 139.
C16_PriceState ==
  /\ \A t \in PriceTypes, g \in PriceGroups :
       C16_Rounds(computePrice(t, pricing, g), C16_BaseWithRatecard(pricing, t), C16_Mult(pricing, g))
  /\ computePrice("solo", DEFAULT_PRICING, "kulturskole") = 139

C16_PriceStep ==
  /\ \A b \in BookingArgs :
       (HandleCreateLocal(b) /\ SlotOf(b) \in DOMAIN bookings' \ DOMAIN bookings) =>
         C16_Rounds(bookings'[SlotOf(b)].priceNOK,
                    C16_BaseWithRatecard(pricing, b.type), C16_Mult(pricing, activeGroup))
  /\ \A p \in Procs, b \in BookingArgs :
       (HandleCreateStart(p, b) /\ pc'[p] = "insert") =>
         C16_Rounds(cl'[p].row.price_nok,
                    C16_BaseWithRatecard(pricing, b.type), C16_Mult(pricing, activeGroup))
  /\ \A p \in Procs : InsertOk(p) => \A r \in db' \ db : r.price_nok = cl[p].row.price_nok

C16_PriceRoundsBaseTimesMultiplier == [](C16_PriceState) /\ [][C16_PriceStep]_vars

\* a booking stored under kulturskole at a multiplier edited to 1.2, in a
\* configuration that has no base price for the booking's room type
C16_Witness ==
  /\ "band" \notin DOMAIN pricing.base
  /\ pricing.groups["kulturskole"] = 120
  /\ \/ \E s \in DOMAIN bookings :
          /\ ~hasSupabase /\ bookings[s].type = "band"
          /\ bookings[s].groupCode = "kulturskole" /\ bookings[s].priceNOK = 479
     \/ \E r \in db : r.type = "band" /\ r.group_code = "kulturskole" /\ r.price_nok = 479


\* ======================= local fallback beside Supabase mode =======================
\* The application runs in Supabase mode with u1 signed in; shadow is a
\* local-fallback instance that is given each request just before the Supabase
\* instance, under the same flags, active voucher, group, pricing and date.

\* handleCreate's local fallback (lines 1203-1254) on the instance sh
ShadowCreate(sh, b) ==
  LET mode == determineBookingMode(voucherRequired, bookForOthers)
      gate == IF mode = "voucher" /\ activeVoucherId = "" THEN "selectVoucher"
              ELSE IF mode = "voucher" /\ ~checkVoucherAvailable(sh.vouchers, activeVoucherId) THEN "noSlots"
              ELSE ""
      groupCode == GroupCodeOf(activeGroup)
      book == [date |-> b.date, roomId |-> b.roomId, hour |-> b.hour, type |-> b.type,
               roomName |-> b.roomName,
               voucherPartner |-> IF mode = "voucher" THEN PartnerOfId(sh.vouchers, activeVoucherId) ELSE Null,
               bookedFor |-> BookedForVal(mode),
               groupCode |-> groupCode, priceNOK |-> computePrice(b.type, pricing, groupCode),
               createdBy |-> "local"]
      newStore == addBooking(sh.store, book)
  IN IF gate # "" THEN sh
     ELSE [sh EXCEPT !.store = newStore,
                     !.vouchers = DebitOnCreate(sh.vouchers, mode, activeVoucherId),
                     !.rangeWeek = filterRangeLocal(newStore, startOfWeekISO(dateISO), endOfWeekISO(dateISO)),
                     !.rangeMonth = filterRangeLocal(newStore, startOfMonthISO(dateISO), endOfMonthISO(dateISO))]

\* handleDelete's local fallback (lines 1288-1300) on the instance sh
ShadowDelete(sh, b) ==
  LET partner == IF SlotOf(b) \in DOMAIN sh.store THEN sh.store[SlotOf(b)].voucherPartner ELSE Null
      newStore == removeBooking(sh.store, b)
  IN [sh EXCEPT !.store = newStore,
                !.vouchers = CreditOnDelete(sh.vouchers, sh.vouchers, partner),
                !.rangeWeek = filterRangeLocal(newStore, startOfWeekISO(dateISO), endOfWeekISO(dateISO)),
                !.rangeMonth = filterRangeLocal(newStore, startOfMonthISO(dateISO), endOfMonthISO(dateISO))]

\* a request was given to the local instance and not yet to the Supabase instance
Pending == shadow.pending.op # "none" /\ shadow.ev = nEvents

\* both instances have finished every request given so far
Settled == ~Pending /\ \A p \in Procs : pc[p] = "idle"

\* the next request of the sequence goes to the local instance
ShadowRequest(op, b) ==
  /\ Settled
  /\ nEvents < MaxEvents
  /\ shadow' = [(IF op = "create" THEN ShadowCreate(shadow, b) ELSE ShadowDelete(shadow, b))
                  EXCEPT !.pending = [op |-> op, b |-> b], !.ev = nEvents]
  /\ UNCHANGED <<nEvents, hasSupabase, energy, rooms, pricing, now, accessModal, eff, grants, session, bookings,
                 vouchers, ui, notice, busyCells, dateISO, ranges, db, procs>>

InitParity ==
  /\ InitApp
  /\ hasSupabase /\ session = "u1"
  /\ pricing = DEFAULT_PRICING
  /\ db = {}
  /\ shadow = ShadowOf(vouchers)

\* the same request then goes to the Supabase instance, whose requests are
\* answered without transport failure; flags change between requests only
NextParity ==
  \/ \E b \in BookingArgs : ShadowRequest("create", b)
  \/ \E b \in BookingArgs : ShadowRequest("delete", b)
  \/ \E p \in Procs, b \in BookingArgs :
       Pending /\ shadow.pending = [op |-> "create", b |-> b] /\ HandleCreateStart(p, b)
  \/ \E p \in Procs, b \in BookingArgs :
       Pending /\ shadow.pending = [op |-> "delete", b |-> b] /\ HandleDeleteStart(p, b)
  \/ \E p \in Procs : CreateInsert(p) /\ notice' # "bookingError"
  \/ \E p \in Procs : DeleteSelect(p)
  \/ \E p \in Procs : AccessRevoke(p)
  \/ \E p \in Procs : DeleteExec(p) /\ notice' # "ownerOnly"
  \/ \E p \in Procs : RefreshBookings(p)
  \/ \E p \in Procs : RefreshWeek(p)
  \/ \E p \in Procs : RefreshMonth(p)
  \/ \E v \in BOOLEAN : Settled /\ SetVoucherRequired(v)
  \/ \E v \in BOOLEAN : Settled /\ SetBookForOthers(v)
  \/ \E g \in Groups : Settled /\ SetActiveGroup(g)

SpecParity == InitParity /\ [][NextParity]_vars

\* what the claim compares of a booking
C17_ViewOfCell(c) ==
  [slot |-> SlotOf(c), voucherPartner |-> c.voucherPartner, bookedFor |-> c.bookedFor,
   groupCode |-> c.groupCode, priceNOK |-> c.priceNOK]

\* C17: given the same sequence of create and delete requests by one
\* signed-in user under the same flags, vouchers and pricing, the local
\* fallback and the Supabase mode end with the same set of bookings (slot,
\* voucher reference, booked-for label, group code, price), the same voucher
\* balances and the same week and month booked counts, also when the sequence
\* holds a create on an already-booked slot.
C17_LocalRemoteParity ==
  Settled =>
    /\ {C17_ViewOfCell(RowToCell(r)) : r \in db}
         = {C17_ViewOfCell(shadow.store[s]) : s \in DOMAIN shadow.store}
    /\ vouchers = shadow.vouchers
    /\ Cardinality(rangeWeek) = Cardinality(shadow.rangeWeek)
    /\ Cardinality(rangeMonth) = Cardinality(shadow.rangeMonth)


\* ======================= access grants =======================
\* Time is counted in days from the day before the first booking date; a
\* grant's end_at is the day of its booking (hour + 1 h + buffer, lines 1034-1035).
EndAt(date) == date - BookingDates[1] + 1

Pins == {"111111", "222222"}     \* String(Math.floor(100000 + Math.random()*900000))

\* gen_random_uuid(): an id no grant of the table has
NewGrantId(gs) == Cardinality(gs) + 1

ModalLoading == [open |-> TRUE, grant |-> Null, error |-> FALSE, loading |-> TRUE]
ModalError == [open |-> TRUE, grant |-> Null, error |-> TRUE, loading |-> FALSE]
ModalGrant(g) == [open |-> TRUE, grant |-> g, error |-> FALSE, loading |-> FALSE]

\* the function's response reaches showAccessFor, which shows it; the invocation ends
AccessReturn(p, modal) ==
  /\ accessModal' = modal
  /\ pc' = [pc EXCEPT ![p] = "idle"]
  /\ cl' = [cl EXCEPT ![p] = NoClosure]

\* showAccessFor(b), local fallback: a demo grant computed from the booking, nothing stored
ShowAccessLocal(b) ==
  /\ UserEvent
  /\ ~hasSupabase
  /\ accessModal' = ModalGrant([provider |-> "demo-pin", secret |-> <<"generateAccessCode", SlotOf(b)>>,
                                end_at |-> EndAt(b.date)])
  /\ UNCHANGED <<hasSupabase, energy, rooms, pricing, now, eff, shadow, grants, session, bookings,
                 vouchers, ui, notice, busyCells, dateISO, ranges, db, procs>>

\* showAccessFor(b), Supabase: session check, modal loading, invoke access_get_or_issue
ShowAccessStart(p, b) ==
  /\ UserEvent
  /\ hasSupabase
  /\ FirstIdle(p)
  /\ IF session = Null
     THEN /\ notice' = "loginToAccess"
          /\ UNCHANGED <<accessModal, procs>>
     ELSE /\ accessModal' = ModalLoading
          /\ cl' = [cl EXCEPT ![p] = [op |-> "access", booking_id |-> SlotOf(b)]]
          /\ pc' = [pc EXCEPT ![p] = "gBooking"]
          /\ UNCHANGED notice
  /\ UNCHANGED <<hasSupabase, energy, rooms, pricing, now, eff, shadow, grants, session, bookings,
                 vouchers, ui, busyCells, dateISO, ranges, db>>

\* access_get_or_issue: await select booking; then nowISO is read and the select of
\* the issued, unexpired grants is sent
GrantBooking(p) ==
  /\ UNCHANGED nEvents
  /\ pc[p] = "gBooking"
  /\ LET found == RowsAt(db, cl[p].booking_id)
     IN cl' = [cl EXCEPT ![p] =
                 [op |-> "access", booking_id |-> cl[p].booking_id,
                  booking |-> IF found = {} THEN [id |-> Null] ELSE [id |-> cl[p].booking_id,
                                  date |-> (CHOOSE r \in found : TRUE).date,
                                  booked_for |-> (CHOOSE r \in found : TRUE).booked_for,
                                  created_by |-> (CHOOSE r \in found : TRUE).created_by],
                  nowISO |-> now]]
  /\ pc' = [pc EXCEPT ![p] = "gExisting"]
  /\ UNCHANGED <<env, grants, session, bookings, vouchers, ui, notice, busyCells, dateISO, ranges, db>>

\* await select existing ... limit(1): an existing grant (any one: there is no order by)
\* is returned; else booking.room_id is read for the door group, which throws for no booking
GrantExisting(p) ==
  /\ UNCHANGED nEvents
  /\ pc[p] = "gExisting"
  /\ LET existing == {g \in grants : /\ g.booking_id = cl[p].booking_id
                                     /\ g.status = "issued"
                                     /\ g.end_at >= cl[p].nowISO}
     IN IF existing # {}
        THEN \E g \in existing : AccessReturn(p, ModalGrant(g))
        ELSE IF cl[p].booking.id = Null
        THEN AccessReturn(p, ModalError)
        ELSE /\ pc' = [pc EXCEPT ![p] = "gDoor"]
             /\ UNCHANGED <<accessModal, cl>>
  /\ UNCHANGED <<hasSupabase, energy, rooms, pricing, now, eff, shadow, grants, session, bookings,
                 vouchers, ui, notice, busyCells, dateISO, ranges, db>>

\* await select door_groups; then the window and the PIN are computed and the insert is sent
GrantDoor(p) ==
  /\ UNCHANGED nEvents
  /\ pc[p] = "gDoor"
  /\ \E pin \in Pins :
       cl' = [cl EXCEPT ![p] =
                [op |-> "access", booking_id |-> cl[p].booking_id,
                 payload |-> [booking_id |-> cl[p].booking_id, secret |-> pin,
                              end_at |-> EndAt(cl[p].booking.date), status |-> "issued",
                              issued_to |-> cl[p].booking.booked_for,
                              created_by |-> cl[p].booking.created_by]]]
  /\ pc' = [pc EXCEPT ![p] = "gInsert"]
  /\ UNCHANGED <<env, grants, session, bookings, vouchers, ui, notice, busyCells, dateISO, ranges, db>>

\* await insert into access_grants (booking_id must reference a booking); the grant is returned
GrantInsert(p) ==
  /\ UNCHANGED nEvents
  /\ pc[p] = "gInsert"
  /\ IF RowsAt(db, cl[p].booking_id) = {}
     THEN /\ AccessReturn(p, ModalError)
          /\ UNCHANGED grants
     ELSE LET grant == [id |-> NewGrantId(grants)] @@ cl[p].payload
          IN /\ grants' = grants \cup {grant}
             /\ AccessReturn(p, ModalGrant(grant))
  /\ UNCHANGED <<hasSupabase, energy, rooms, pricing, now, eff, shadow, session, bookings,
                 vouchers, ui, notice, busyCells, dateISO, ranges, db>>

\* time passes
Tick ==
  /\ now < MaxClock
  /\ now' = now + 1
  /\ UNCHANGED <<nEvents, hasSupabase, energy, rooms, pricing, accessModal, eff, shadow, grants, session, bookings,
                 vouchers, ui, notice, busyCells, dateISO, ranges, db, procs>>

\* the bookings u1 made earlier, one in each room
GrantRows ==
  {[date |-> b.date, room_id |-> b.roomId, hour |-> b.hour, type |-> b.type, room_name |-> b.roomName,
    voucher_partner |-> Null, booked_for |-> Null, group_code |-> "standard",
    price_nok |-> computePrice(b.type, DEFAULT_PRICING, "standard"), created_by |-> "u1"] :
     b \in BookingArgs}

InitGrants ==
  /\ InitApp
  /\ pricing = DEFAULT_PRICING /\ shadow = NoShadow
  /\ vouchers = << >>
  /\ db \in (IF hasSupabase THEN {GrantRows, {r \in GrantRows : r.date = BookingDates[1]}} ELSE {{}})

NextGrants ==
  \/ \E b \in BookingArgs : ShowAccessLocal(b)
  \/ \E p \in Procs, b \in BookingArgs : ShowAccessStart(p, b)
  \/ \E p \in Procs : GrantBooking(p)
  \/ \E p \in Procs : GrantExisting(p)
  \/ \E p \in Procs : GrantDoor(p)
  \/ \E p \in Procs : GrantInsert(p)
  \/ Tick

SpecGrants == InitGrants /\ [][NextGrants]_vars

\* the grants of a booking that are issued and not expired now
C18_Active(bookingId) ==
  {g \in grants : g.booking_id = bookingId /\ g.status = "issued" /\ g.end_at >= now}

\* C18: after any sequence or interleaving of get-or-issue calls for the same
\* booking before expiry, at most one grant with status issued and not yet
\* expired exists for that booking, and a call that returns a grant before the
\* booking's expiry returns that one grant (same identity, same secret).
C18_OneActiveGrantPerBooking ==
  /\ \A b \in BookingArgs : Cardinality(C18_Active(SlotOf(b))) <= 1
  /\ (hasSupabase /\ accessModal.open /\ ~accessModal.loading /\ ~accessModal.error
        /\ accessModal.grant.end_at >= now)
       => C18_Active(accessModal.grant.booking_id) = {accessModal.grant}


\* ----- computeUtilizationRange on range maps of one week -----
\* entries a range map can hold: room s1 on three days of the first week of
\* September 2025, two hours on one of them, and room b1 on one day
UtilEntries == {<<1, "s1", 10>>, <<3, "s1", 12>>, <<3, "s1", 13>>, <<5, "b1", 10>>}
UtilDates == {1, 3, 7, 30}

InitUtil ==
  /\ Quiet
  /\ vouchers = << >> /\ activeVoucherId = ""
  /\ bookings = EmptyStore
  /\ dateISO = 1
  /\ rangeWeek \in SUBSET UtilEntries
  /\ rangeMonth = rangeWeek
  /\ rooms \in {<< >>, <<DEFAULT_ROOMS[1]>>, DEFAULT_ROOMS}
  /\ pricing = DEFAULT_PRICING

NextUtil ==
  \/ \E id \in NewRoomIds, t \in {"solo", "band", "preprod"} : addRoom(id, t)
  \/ \E id \in {"s1", "b1"} \cup NewRoomIds : removeRoom(id)

SpecUtil == InitUtil /\ [][NextUtil]_vars

\* weekStats as App computes it at every render
weekStats == computeUtilizationRange(rangeWeek, rooms, startOfWeekISO(dateISO), endOfWeekISO(dateISO))

\* C19: computeUtilizationRange returns total = number of rooms x 13
\* operating hours x number of calendar days from startDate to endDate
\* inclusive (none when startDate is after endDate), and utilization =
\* booked / total x 100, which is 0 when total is 0; for one room over a 7-day
\* range with 3 booked hours spread over several days it is 3 / (13 x 7) x 100.
C19_UtilizationOfRange ==
  /\ \A s \in UtilDates, e \in UtilDates :
       LET r == computeUtilizationRange(rangeWeek, rooms, s, e)
           days == IF e >= s THEN e - s + 1 ELSE 0
       IN /\ r.total = Len(rooms) * 13 * days
          /\ r.booked = Cardinality(rangeWeek)
          /\ IF r.total = 0 THEN r.utilization.num = 0
             ELSE r.utilization.num * r.total = r.booked * 100 * r.utilization.den
  /\ (Len(rooms) = 1 /\ Cardinality(rangeWeek) = 3) =>
       /\ weekStats.total = 13 * 7
       /\ weekStats.utilization.num * (13 * 7) = 3 * 100 * weekStats.utilization.den

\* one room left after a room was removed, and a week's range map with three
\* booked hours on two days
C19_Witness ==
  /\ Len(rooms) = 1 /\ nEvents >= 1
  /\ rangeWeek = {<<1, "s1", 10>>, <<3, "s1", 12>>, <<3, "s1", 13>>}


\* ======================= the selected date and the range counts =======================
DateInputs == {29, 31, 36}     \* 2025-09-29, 2025-10-01 (same week, next month), 2025-10-06 (next week)

\* <input type="date" onChange={e=>setDateISO(e.target.value)}> and the two
\* effects on dateISO: in local fallback the ranges are filtered from the
\* store at once; in Supabase mode refreshBookings and the two refreshRange
\* calls are awaited
SetDateISO(d) ==
  /\ UserEvent
  /\ d # dateISO
  /\ eff = NoEffect
  /\ dateISO' = d
  /\ IF hasSupabase
     THEN /\ eff' = [day |-> "refresh", range |-> "week", dateISO |-> d]
          /\ UNCHANGED ranges
     ELSE /\ rangeWeek' = filterRangeLocal(bookings, startOfWeekISO(d), endOfWeekISO(d))
          /\ rangeMonth' = filterRangeLocal(bookings, startOfMonthISO(d), endOfMonthISO(d))
          /\ UNCHANGED eff
  /\ UNCHANGED <<hasSupabase, energy, rooms, pricing, now, accessModal, shadow, grants, session, bookings,
                 vouchers, ui, notice, busyCells, db, procs>>

\* an effect that has run to its end
EffectDone(e) == IF e.day = "idle" /\ e.range = "idle" THEN NoEffect ELSE e

\* useEffect(... refreshBookings(dateISO, setBookings) ..., [dateISO])
EffectDay ==
  /\ eff.day = "refresh"
  /\ bookings' = DayStore({r \in db : r.date = eff.dateISO})
  /\ eff' = EffectDone([eff EXCEPT !.day = "idle"])
  /\ UNCHANGED <<nEvents, hasSupabase, energy, rooms, pricing, now, accessModal, shadow, grants, session,
                 vouchers, ui, notice, busyCells, dateISO, ranges, db, procs>>

\* const week = await refreshRange(ws, we)
EffectWeek ==
  /\ eff.range = "week"
  /\ eff' = [day |-> eff.day, range |-> "month", dateISO |-> eff.dateISO,
             week |-> RangeOf(db, startOfWeekISO(eff.dateISO), endOfWeekISO(eff.dateISO))]
  /\ UNCHANGED <<nEvents, hasSupabase, energy, rooms, pricing, now, accessModal, shadow, grants, session, bookings,
                 vouchers, ui, notice, busyCells, dateISO, ranges, db, procs>>

\* const month = await refreshRange(ms, me); setRangeWeek(week); setRangeMonth(month)
EffectMonth ==
  /\ eff.range = "month"
  /\ rangeWeek' = eff.week
  /\ rangeMonth' = RangeOf(db, startOfMonthISO(eff.dateISO), endOfMonthISO(eff.dateISO))
  /\ eff' = EffectDone([day |-> eff.day, range |-> "idle", dateISO |-> eff.dateISO])
  /\ UNCHANGED <<nEvents, hasSupabase, energy, rooms, pricing, now, accessModal, shadow, grants, session, bookings,
                 vouchers, ui, notice, busyCells, dateISO, db, procs>>

\* BookingView builds b for the selected date: { date: dateISO, roomId, hour, ... }
DateArgs ==
  {[date |-> dateISO, roomId |-> DEFAULT_ROOMS[i].id, hour |-> OPEN_HOUR,
    type |-> DEFAULT_ROOMS[i].type, roomName |-> DEFAULT_ROOMS[i].name] : i \in 1..Len(DEFAULT_ROOMS)}

InitRange ==
  /\ Init
  /\ hasSupabase => session = "u1"
  /\ Len(vouchers) = 2 /\ vouchers[1].slots = MaxSlots /\ vouchers[2].slots = 1

NextRange ==
  \/ \E d \in DateInputs : SetDateISO(d)
  \/ EffectDay
  \/ EffectWeek
  \/ EffectMonth
  \/ \E b \in DateArgs : HandleCreateLocal(b)
  \/ \E b \in DateArgs : HandleDeleteLocal(b)
  \/ \E p \in Procs, b \in DateArgs : HandleCreateStart(p, b)
  \/ \E p \in Procs : CreateInsert(p)
  \/ \E p \in Procs : RefreshBookings(p)
  \/ \E p \in Procs : RefreshWeek(p)
  \/ \E p \in Procs : RefreshMonth(p)
  \/ \E p \in Procs, b \in DateArgs : HandleDeleteStart(p, b)
  \/ \E p \in Procs : DeleteSelect(p)
  \/ \E p \in Procs : AccessRevoke(p)
  \/ \E p \in Procs : DeleteExec(p)

SpecRange == InitRange /\ [][NextRange]_vars

\* monthStats as App computes it at every render
monthStats == computeUtilizationRange(rangeMonth, rooms, startOfMonthISO(dateISO), endOfMonthISO(dateISO))

\* the slots of the bookings in the store of the mode
C20_StoredSlots == IF hasSupabase THEN {RowSlot(r) : r \in db} ELSE DOMAIN bookings

\* C20: once any sequence of creates, deletes and selected-date changes has
\* completed (no handler and no effect is in flight), the week and the month
\* booked count shown are the number of bookings in the store whose date lies
\* in the Monday-to-Sunday week, respectively the calendar month, of the
\* currently selected date.
C20_RangeCountsMatchStore ==
  (eff = NoEffect /\ \A p \in Procs : pc[p] = "idle") =>
    /\ weekStats.booked =
         Cardinality({s \in C20_StoredSlots : s[1] >= startOfWeekISO(dateISO) /\ s[1] <= endOfWeekISO(dateISO)})
    /\ monthStats.booked =
         Cardinality({s \in C20_StoredSlots : s[1] >= startOfMonthISO(dateISO) /\ s[1] <= endOfMonthISO(dateISO)})


\* ======================= daily stats: revenue and energy =======================
StatSlots == {<<29, "s1", 10>>, <<29, "s1", 11>>, <<29, "b1", 10>>, <<31, "b1", 10>>}

\* a cell of the local store: booked at the standard price, booked at price 0,
\* or stored by an earlier version, without a price
StatCell(slot, kind) ==
  LET room == DEFAULT_ROOMS[CHOOSE i \in 1..Len(DEFAULT_ROOMS) : DEFAULT_ROOMS[i].id = slot[2]]
      cell == [date |-> slot[1], roomId |-> slot[2], hour |-> slot[3], type |-> room.type,
               roomName |-> room.name]
  IN IF kind = "legacy" THEN cell
     ELSE cell @@ [voucherPartner |-> Null, bookedFor |-> Null, groupCode |-> "standard",
                   priceNOK |-> IF kind = "free" THEN 0 ELSE computePrice(room.type, DEFAULT_PRICING, "standard"),
                   createdBy |-> "local"]

StatStores ==
  UNION {{[s \in S |-> StatCell(s, kinds[s])] : kinds \in [S -> {"priced", "free", "legacy"}]} :
         S \in SUBSET StatSlots}

EnergyInputs == {0, 30, 60}      \* Number(v) of a coefficient input, in tenths (NaN gives 0)

\* setEnergy({...energy, [k]: Number(v)||0})
SetEnergy(k, v) ==
  /\ UserEvent
  /\ energy[k] # v
  /\ energy' = [energy EXCEPT ![k] = v]
  /\ UNCHANGED <<hasSupabase, rooms, pricing, now, accessModal, eff, shadow, grants, session, bookings,
                 vouchers, ui, notice, busyCells, dateISO, ranges, db, procs>>

\* local fallback with a store loaded from local storage
InitStats ==
  /\ Quiet
  /\ vouchers = << >> /\ activeVoucherId = ""
  /\ bookings \in StatStores
  /\ dateISO = 29
  /\ rangeWeek = filterRangeLocal(bookings, startOfWeekISO(dateISO), endOfWeekISO(dateISO))
  /\ rangeMonth = filterRangeLocal(bookings, startOfMonthISO(dateISO), endOfMonthISO(dateISO))
  /\ rooms = DEFAULT_ROOMS
  /\ pricing = DEFAULT_PRICING

NextStats ==
  \/ \E k \in {"solo", "band", "preprod"}, v \in EnergyInputs : SetEnergy(k, v)
  \/ \E id \in NewRoomIds, t \in {"solo", "band", "preprod"} : addRoom(id, t)
  \/ \E id \in {"s1", "b1"} \cup NewRoomIds : removeRoom(id)
  \/ \E d \in DateInputs : SetDateISO(d)

SpecStats == InitStats /\ [][NextStats]_vars

\* const stats = useMemo(() => computeStats({ bookings, dateISO, rooms, energy }), ...)
stats == computeStats(bookings, dateISO, rooms, energy)

\* the stored price of a slot, else the rate-card price of its room type
C21_PriceOfSlot(cell) ==
  IF "priceNOK" \in DOMAIN cell THEN cell.priceNOK
  ELSE IF cell.type \in DOMAIN RATECARD THEN RATECARD[cell.type] ELSE 0

RECURSIVE C21_SumOfSlots(_)
C21_SumOfSlots(slots) ==
  IF slots = {} THEN 0
  ELSE LET s == CHOOSE x \in slots : TRUE
       IN C21_PriceOfSlot(bookings[s]) + C21_SumOfSlots(slots \ {s})

\* C21: the revenue of the selected day is the sum, over every booked slot of
\* that day in the store, of the slot's stored price when it has one and
\* otherwise of the rate-card price of the slot's room type.
C21_RevenueSumsEveryBookedSlot ==
  stats.revenueToday = C21_SumOfSlots({s \in DOMAIN bookings : s[1] = dateISO})

\* equality of two fractions
SameQuotient(a, b) == a.num * b.den = b.num * a.den

\* the average of the coefficients weighted by the booked slots of each type on
\* the selected day; the plain average of the three when the day has none
C22_ExpectedBaseline ==
  LET day == {s \in DOMAIN bookings : s[1] = dateISO}
      count(t) == Cardinality({s \in day : bookings[s].type = t})
  IN IF day = {}
     THEN [num |-> energy.solo + energy.band + energy.preprod, den |-> 3]
     ELSE [num |-> count("solo") * energy.solo + count("band") * energy.band
                   + count("preprod") * energy.preprod,
           den |-> Cardinality(day)]

\* C22: the energy baseline of the selected day, as computeStats reports it
\* (kwhPerBookedHour) and as computeBaselineEnergy reports it, is the average
\* of the room-type coefficients weighted by the booked slots of each type,
\* and the unweighted average of the three coefficients on a day without
\* booked slots.
C22_BaselineIsWeightedAverage ==
  /\ SameQuotient(stats.kwhPerBookedHour, C22_ExpectedBaseline)
  /\ SameQuotient(computeBaselineEnergy(bookings, dateISO, rooms, stats), C22_ExpectedBaseline)


\* ======================= deleting a booking that has an access grant =======================
\* the bookings u1 made earlier: the first on voucher P, the second without voucher
RevokeRows ==
  {[date |-> BookingArgs_i.date, room_id |-> BookingArgs_i.roomId, hour |-> BookingArgs_i.hour,
    type |-> BookingArgs_i.type, room_name |-> BookingArgs_i.roomName,
    voucher_partner |-> IF BookingArgs_i.roomId = DEFAULT_ROOMS[1].id THEN "P" ELSE Null,
    booked_for |-> Null, group_code |-> "standard",
    price_nok |-> computePrice(BookingArgs_i.type, DEFAULT_PRICING, "standard"), created_by |-> "u1"] :
     BookingArgs_i \in BookingArgs}

\* Supabase mode, the creator or another user signed in, both bookings in the table
InitRevoke ==
  /\ InitApp
  /\ hasSupabase /\ session \in Users
  /\ pricing = DEFAULT_PRICING /\ shadow = NoShadow
  /\ Len(vouchers) = 2 /\ vouchers[1].slots = 1 /\ vouchers[2].slots = 1
  /\ db = RevokeRows

NextRevoke ==
  \/ \E p \in Procs, b \in BookingArgs : ShowAccessStart(p, b)
  \/ \E p \in Procs : GrantBooking(p)
  \/ \E p \in Procs : GrantExisting(p)
  \/ \E p \in Procs : GrantDoor(p)
  \/ \E p \in Procs : GrantInsert(p)
  \/ \E p \in Procs, b \in BookingArgs : HandleDeleteStart(p, b)
  \/ \E p \in Procs : DeleteSelect(p)
  \/ \E p \in Procs : AccessRevoke(p)
  \/ \E p \in Procs : DeleteExec(p)
  \/ \E p \in Procs : RefreshBookings(p)
  \/ \E p \in Procs : RefreshWeek(p)
  \/ \E p \in Procs : RefreshMonth(p)

SpecRevoke == InitRevoke /\ [][NextRevoke]_vars

\* after the access_revoke call, whatever its outcome, the delete is the next request
C23_DeleteFollowsRevoke ==
  \A p \in Procs :
    (pc[p] = "revoke" /\ pc'[p] # "revoke") =>
      /\ pc'[p] = "delete"
      /\ db' = db /\ vouchers' = vouchers /\ notice' = notice /\ busyCells' = busyCells

\* a delete after a failed revocation that is answered without error removes
\* the creator's booking and credits the voucher of the booking once
C23_DeleteAfterFailedRevoke ==
  \A p \in Procs :
    (pc[p] = "delete" /\ cl[p].revoke = "failed" /\ pc'[p] = "refresh") =>
      /\ \A r \in RowsAt(db, SlotOf(cl[p].b)) : r.created_by = cl[p].uid => r \notin db'
      /\ db' \subseteq db /\ db \ db' \subseteq RowsAt(db, SlotOf(cl[p].b))
      /\ vouchers' = PlusOneFor(vouchers, cl[p].voucherPartner)
      /\ notice' = notice

\* C23: in remote handleDelete a failed access_revoke call (thrown, or
\* answered with an error) does not block the deletion: the booking delete is
\* the next request, and when it is answered without error the booking is
\* removed and the voucher credited as after a successful revocation.
C23_RevokeFailureDoesNotBlock ==
  [][C23_DeleteFollowsRevoke /\ C23_DeleteAfterFailedRevoke]_vars

\* a delete by the creator went through after the revocation had failed while
\* the booking's grant was issued: the booking on voucher P is gone and P credited
C23_Witness ==
  \E p \in Procs :
    /\ pc[p] = "refresh" /\ cl[p].op = "delete" /\ cl[p].revoke = "failed"
    /\ cl[p].voucherPartner = "P"
    /\ RowsAt(db, SlotOf(cl[p].b)) = {}
    /\ vouchers[1].slots = 2
    /\ accessModal.open /\ ~accessModal.loading /\ ~accessModal.error
    /\ accessModal.grant.booking_id = SlotOf(cl[p].b)

\* C28: handleDelete revokes an access grant only if the booking is then
\* deleted: when a handler's delete has been refused or has failed and the
\* booking is still in the table, no grant of that booking has been turned
\* from issued to revoked by that handler.
C28_NoRevokeWithoutDelete ==
  [][\A p \in Procs :
       (pc[p] = "delete" /\ pc'[p] # "delete" /\ cl[p].revoke = "ok"
        /\ RowsAt(db', SlotOf(cl[p].b)) # {}) =>
         \A g \in grants' : g.booking_id = SlotOf(cl[p].b) => g.status # "revoked"]_vars


\* ======================= handlers without a session =======================
\* a create or delete started in Supabase mode with no session
C24_StartedSignedOut(p, b) ==
  /\ hasSupabase /\ session = Null
  /\ HandleCreateStart(p, b) \/ HandleDeleteStart(p, b)

\* it sends nothing, debits and credits nothing, marks no cell busy and
\* leaves the bookings snapshot as it was
C24_NothingDone ==
  /\ db' = db /\ pc' = pc /\ cl' = cl
  /\ vouchers' = vouchers /\ busyCells' = busyCells /\ bookings' = bookings

\* C24 as stated: in remote mode with no session handleCreate and handleDelete
\* issue no insert or delete, change no voucher balance, mark no cell busy,
\* leave the bookings snapshot unchanged and set an authentication-required notice.
C24_SignedOutSetsAuthNotice ==
  [][\A p \in Procs, b \in BookingArgs :
       C24_StartedSignedOut(p, b) =>
         C24_NothingDone /\ notice' \in {"loginToBook", "loginToDelete"}]_vars

\* C24 amended: ... and set a notice, which is the authentication-required
\* notice for handleDelete and for a handleCreate that passes the voucher gate,
\* and the voucher gate's notice for a handleCreate in voucher mode with no
\* active voucher or no slot left on it.
C24_SignedOutDoesNothing ==
  [][\A p \in Procs, b \in BookingArgs :
       /\ (hasSupabase /\ session = Null /\ HandleDeleteStart(p, b)) =>
            C24_NothingDone /\ notice' = "loginToDelete"
       /\ (hasSupabase /\ session = Null /\ HandleCreateStart(p, b)) =>
            /\ C24_NothingDone
            /\ LET mode == determineBookingMode(voucherRequired, bookForOthers)
               IN IF mode = "voucher" /\ activeVoucherId = ""
                  THEN notice' = "selectVoucher"
                  ELSE IF mode = "voucher" /\ ~checkVoucherAvailable(vouchers, activeVoucherId)
                  THEN notice' = "noSlots"
                  ELSE notice' = "loginToBook"]_vars

\* a handler was started without a session: its notice is up, nothing is in
\* flight, no cell is busy and the table is empty
C24_Witness ==
  /\ hasSupabase /\ session = Null /\ nEvents >= 1
  /\ notice \in {"loginToBook", "loginToDelete"}
  /\ \A p \in Procs : pc[p] = "idle"
  /\ busyCells = {} /\ db = {}


\* ======================= credits and voucher bookings in balance =======================
\* the two default vouchers with known slot counts; no voucher is edited or deleted
InitBalance ==
  /\ Init
  /\ Len(vouchers) = 2 /\ vouchers[1].slots = MaxSlots /\ vouchers[2].slots = 1

NextBalance ==
  \/ \E v \in BOOLEAN : SetVoucherRequired(v)
  \/ \E v \in BOOLEAN : SetBookForOthers(v)
  \/ \E id \in {"v1", "v2"} : SetActiveVoucherId(id)
  \/ \E s \in LabelInputs : SetBookedFor(s)
  \/ \E g \in Groups : SetActiveGroup(g)
  \/ \E s \in Users \cup {Null} : AuthStateChange(s)
  \/ \E b \in BookingArgs : HandleCreateLocal(b)
  \/ \E b \in BookingArgs : HandleDeleteLocal(b)
  \/ \E p \in Procs, b \in BookingArgs : HandleCreateStart(p, b)
  \/ \E p \in Procs : CreateInsert(p)
  \/ \E p \in Procs : RefreshBookings(p)
  \/ \E p \in Procs : RefreshWeek(p)
  \/ \E p \in Procs : RefreshMonth(p)
  \/ \E p \in Procs, b \in BookingArgs : HandleDeleteStart(p, b)
  \/ \E p \in Procs : DeleteSelect(p)
  \/ \E p \in Procs : AccessRevoke(p)
  \/ \E p \in Procs : DeleteExec(p)

SpecBalance == InitBalance /\ [][NextBalance]_vars

\* the existing bookings whose voucher reference is the partner
C25_BookedOn(partner) ==
  IF hasSupabase
  THEN Cardinality({r \in db : r.voucher_partner = partner})
  ELSE Cardinality({s \in DOMAIN bookings : bookings[s].voucherPartner = partner})

\* C25: with no manual voucher edit and no voucher deletion, in every
\* reachable state and for every voucher, the remaining slots plus the number
\* of existing bookings that refer to the voucher's partner is the voucher's
\* initial slot count.
C25_CreditsAndBookingsBalance ==
  /\ Len(vouchers) = 2
  /\ vouchers[1].slots + C25_BookedOn(vouchers[1].partner) = MaxSlots
  /\ vouchers[2].slots + C25_BookedOn(vouchers[2].partner) = 1


\* ======================= vouchers that share a partner name =======================
\* local fallback; the ledger holds the default vouchers with two slots each
\* and, when it was created in the voucher view earlier, a second voucher of partner P
InitPartners ==
  /\ Quiet
  /\ vouchers \in {<< [id |-> "v1", partner |-> "P", slots |-> 2],
                      [id |-> "v2", partner |-> "Q", slots |-> 2] >>,
                   << [id |-> "v1", partner |-> "P", slots |-> 2],
                      [id |-> "v2", partner |-> "Q", slots |-> 2],
                      [id |-> "v3", partner |-> "P", slots |-> 2] >>}
  /\ activeVoucherId = "v1"
  /\ bookings = EmptyStore
  /\ dateISO \in InitialDates
  /\ rangeWeek = {} /\ rangeMonth = {}
  /\ rooms = DEFAULT_ROOMS
  /\ pricing = DEFAULT_PRICING

NextPartners ==
  \/ \E id \in NewVoucherIds, n \in {"", "P"} : CreateVoucher(id, n, 2)
  \/ \E id \in {"v1", "v2"} \cup NewVoucherIds : SetActiveVoucherId(id)
  \/ \E v \in BOOLEAN : SetVoucherRequired(v)
  \/ \E b \in BookingArgs : HandleCreateLocal(b)
  \/ \E b \in BookingArgs : HandleDeleteLocal(b)

SpecPartners == InitPartners /\ [][NextPartners]_vars

\* C26: the voucher credited when a voucher-mode booking is deleted is the
\* voucher (same id) that was debited when the booking was created, also when
\* two vouchers of the ledger share one partner name. Every voucher starts
\* with two slots and none is edited, so a credit that goes to the voucher
\* that was debited never lifts a voucher above two slots.
C26_CreditGoesToDebitedVoucher ==
  \A i \in 1..Len(vouchers) : vouchers[i].slots <= 2


\* ======================= busy cells =======================
\* C27: in remote mode, once every handleCreate and handleDelete in flight has
\* completed, busyCells is empty: no cell stays marked busy after its own
\* operation has finished, under any interleaving of operations on different cells.
C27_NoCellStaysBusy ==
  (hasSupabase /\ \A p \in Procs : pc[p] = "idle") => busyCells = {}


\* ======================= the bookings snapshot of the selected date =======================
\* C29: in remote mode, once all operations and refreshes in flight have
\* completed, the bookings snapshot holds the table's bookings of the
\* currently selected date, also when the selected date was changed while a
\* create or delete for another date was in flight.
C29_SnapshotShowsSelectedDate ==
  (hasSupabase /\ eff = NoEffect /\ \A p \in Procs : pc[p] = "idle") =>
    LET day == {s \in DOMAIN bookings : s[1] = dateISO}
    IN /\ day = {RowSlot(r) : r \in {x \in db : x.date = dateISO}}
       /\ \A s \in day : \E r \in db : RowSlot(r) = s /\ bookings[s] = RowToCell(r)


\* ======================= range statistics and the room list =======================
C30_InBounds(st) ==
  /\ st.booked <= st.total
  /\ st.utilization.num >= 0
  /\ st.utilization.num <= 100 * st.utilization.den

\* C30: in every reachable state the week and the month statistics have
\* booked <= total and 0 <= utilization <= 100, also after rooms have been
\* added to or removed from the room list while bookings of removed rooms
\* remain in the store.
C30_RangeStatsInBounds ==
  C30_InBounds(weekStats) /\ C30_InBounds(monthStats)

====
